---- MODULE Spec2Model ----
(***************************************************************************)
(* A model of the storage wrappers (DynamoDBHelper, S3Helper), the utility *)
(* layer (utils.py) and the tool front end (weather.py).                   *)
(*                                                                         *)
(* Every wrapper is a pass-through to a backend service, so each part of   *)
(* the model has two halves: the backend's answer to one request (an       *)
(* operator or a nondeterministic choice, modelled at the call site), and  *)
(* the wrapper's own control flow around it (the actions).  A loop that    *)
(* issues one backend request per iteration is one action per iteration.   *)
(*                                                                         *)
(* The module holds one specification per component:                       *)
(*   SpecBatch   DynamoDBHelper.batch_get_items                            *)
(*   SpecBatchFair  the same, against a backend that may                   *)
(*               leave keys unprocessed any number of times                *)
(*   SpecQuery   DynamoDBHelper.query_by_index, query_items_by_begins_pk_sk*)
(*   SpecTableRead  DynamoDBHelper.scan_table, query_table                 *)
(*   SpecItem    DynamoDBHelper.get_item, put_item, update_item,           *)
(*               delete_item; utils.get_title_from_resource_id             *)
(*   SpecObject  S3Helper.object_exists                                    *)
(*   SpecList    S3Helper.list_objects, list_objects_by_size               *)
(*   SpecTools   the four tools of weather.py and the utilities they call  *)
(*   SpecListMetadata  S3Helper.list_objects, list_objects_with_metadata   *)
(*   SpecListDates  S3Helper.list_objects_by_last_modified                 *)
(*   SpecSanitize  utils.sanitize_filename                                 *)
(*   SpecTree    S3Helper.list_objects_recursively                         *)
(*   SpecTreeFair  the same, the calls in progress running on              *)
(*   SpecAdvanced S3Helper.list_objects_advanced                           *)
(*   SpecConcurrent tool calls in flight at the same time                  *)
(*   SpecStorage the calls of both helpers that send one request, and      *)
(*               DynamoDBHelper.transact_write_items                       *)
(***************************************************************************)
EXTENDS Integers, Sequences, FiniteSets, TLC

VARIABLES
    \* ---- DynamoDBHelper.batch_get_items
    bg_table,       \* keys for which the table holds an item
    bg_pc,          \* "idle" | "loop" | "done" | "raised"
    bg_arg,         \* the `keys` argument as the caller passed it
    bg_keys,        \* the local `keys`, rebound by the loop
    bg_all_items,   \* the local `all_items`
    bg_requests,    \* the batches sent to the backend, in order
    bg_unprocessed, \* UnprocessedKeys of the last response
    bg_throttled,   \* responses so far that reported unprocessed keys
    bg_stuck,       \* the keys the backend never processes; it does not change
    bg_result,      \* the returned list
    \* ---- DynamoDBHelper.query_by_index / query_items_by_begins_pk_sk
    q_index,        \* the items the key condition selects, in index order
    q_pc,           \* "idle" | "paging" | "done" | "raised"
    q_op,           \* which of the two functions is running
    q_limit,        \* the `limit` argument
    q_filter,       \* whether a filter_expression was given
    q_all_items,    \* the local `all_items`
    q_response,     \* the last response: [Items, LastEvaluatedKey]
    q_pages,        \* the pages received, in order
    q_args,         \* the key arguments of the call
    q_key_condition,\* the local `key_condition` (kwargs["KeyConditionExpression"])
    q_requests,     \* the requests sent to the backend, in order
    q_result,       \* the returned list
    \* ---- DynamoDBHelper.get_item / put_item / update_item / delete_item
    t_sk_name,      \* the helper's sk_name: None, or the sort key's name
    t_items,        \* the table: key -> the item's attribute, or NoItem
    t_before,       \* the table as it was when the last call began
    t_last,         \* the last call: what was sent, what came back
    \* ---- S3Helper: the bucket and the calls on one object
    s3_bucket,      \* the objects of the bucket
    o_last,         \* the last call on one object and its outcome
    \* ---- S3Helper.list_objects and the listings built on it
    l_pc,           \* "idle" | "paging" | "done" | "raised", or the name
                    \* of the exception that ended the call
    l_op,           \* which listing function is running
    l_args,         \* its arguments
    l_all_objects,  \* the local `all_objects` of list_objects
    l_page_count,   \* the local `page_count` of list_objects
    l_result,       \* the returned list
    \* ---- weather.py: the tool front end
    tool_last,      \* the last tool call: its input, what the external
                    \* calls answered, and how it ended
    \* ---- tool calls in flight at the same time
    conc_backend,   \* what the bucket and the tables hold; it does not change
    conc_fields,    \* the fields of the module-level helpers of utils.py
    conc_calls,     \* per call in flight: tool, input, position, locals, result
    \* ---- S3Helper.list_objects_recursively
    r_pc,           \* "idle" | "running" | "done" | "raised"
    r_args,         \* the arguments of the outermost call
    r_stack,        \* the frames of the calls in progress, innermost last
    r_listings,     \* the prefixes listed so far, in order
    r_loop,         \* the prefix the backend returns as its own common
                    \* prefix, if it has one; it does not change
    r_result        \* the returned tree

batchVars == <<bg_table, bg_pc, bg_arg, bg_keys, bg_all_items, bg_requests,
               bg_unprocessed, bg_throttled, bg_stuck, bg_result>>
queryVars == <<q_index, q_pc, q_op, q_limit, q_filter, q_all_items, q_response,
               q_pages, q_args, q_key_condition, q_requests, q_result>>
itemVars == <<t_sk_name, t_items, t_before, t_last>>
objectVars == <<s3_bucket, o_last>>
listVars == <<l_pc, l_op, l_args, l_all_objects, l_page_count, l_result>>
concVars == <<conc_backend, conc_fields, conc_calls>>
treeVars == <<r_pc, r_args, r_stack, r_listings, r_loop, r_result>>
vars == <<batchVars, queryVars, itemVars, objectVars, listVars, tool_last,
          concVars, treeVars>>

\* what a component's actions leave alone: the other components
outsideBatch ==
    <<queryVars, itemVars, objectVars, listVars, tool_last, concVars, treeVars>>
outsideQuery ==
    <<batchVars, itemVars, objectVars, listVars, tool_last, concVars, treeVars>>
outsideItem ==
    <<batchVars, queryVars, objectVars, listVars, tool_last, concVars, treeVars>>
outsideObject ==
    <<batchVars, queryVars, itemVars, listVars, tool_last, concVars, treeVars>>
outsideList ==
    <<batchVars, queryVars, itemVars, o_last, tool_last, concVars, treeVars>>
outsideTools ==
    <<batchVars, queryVars, itemVars, objectVars, listVars, concVars, treeVars>>
outsideConcurrent ==
    <<batchVars, queryVars, itemVars, objectVars, listVars, tool_last,
      treeVars>>
outsideTree ==
    <<batchVars, queryVars, itemVars, o_last, listVars, tool_last, concVars>>

\* no recursive listing is modelled
TreeRest ==
    /\ r_pc = "idle"
    /\ r_args = <<>>
    /\ r_stack = <<>>
    /\ r_listings = <<>>
    /\ r_loop = <<>>
    /\ r_result = <<>>

\* no tool calls in flight are modelled
ConcRest == conc_backend = <<>> /\ conc_fields = <<>> /\ conc_calls = <<>>

----------------------------------------------------------------------------
(* Helpers on sequences and sets.                                          *)

Range(s) == {s[i] : i \in 1..Len(s)}

Min(a, b) == IF a <= b THEN a ELSE b

\* ceil(a / b) for b > 0
CeilDiv(a, b) == (a + b - 1) \div b

\* s[:n] of Python
Take(s, n) == SubSeq(s, 1, Min(n, Len(s)))

\* s[n:] of Python
Drop(s, n) == SubSeq(s, Min(n, Len(s)) + 1, Len(s))

RECURSIVE Concat(_)
\* the concatenation of a sequence of sequences
Concat(ss) == IF ss = <<>> THEN <<>> ELSE Head(ss) \o Concat(Tail(ss))

\* the absent value: Python's None, a missing dictionary key
None == "None"

\* an optional argument whose values are numbers or sequences: Nothing is
\* None, Some(x) is x
Nothing == <<>>
Some(x) == <<x>>
Given(opt) == opt # Nothing
Value(opt) == opt[1]

----------------------------------------------------------------------------
(* DynamoDBHelper.batch_get_items                                          *)

\* the batch size of `keys[:100]`
BatchLimit == 100

\* the longest key list a caller passes
MaxKeys == 102

\* how many responses of one call may report unprocessed keys
MaxThrottles == 2

\* the keys of the table, numbered; key k identifies at most one item
AllKeys == 1..(MaxKeys + 1)

\* keys whose item may be missing from the table
MissingCandidates == {1, BatchLimit, BatchLimit + 1}

\* keys the backend may leave unprocessed in a response
FlakyKeys == {2, 3, BatchLimit + 1}

\* the item stored under key k
Item(k) == [key |-> k]

\* Responses of BatchGetItem for `batch` when the keys in U stay unprocessed:
\* the items of the processed keys that the table holds
BatchGetResponses(batch, U) ==
    LET answered == SelectSeq(batch, LAMBDA k : k \notin U /\ k \in bg_table)
    IN  [i \in 1..Len(answered) |-> Item(answered[i])]

\* UnprocessedKeys of that response
BatchGetUnprocessedKeys(batch, U) == SelectSeq(batch, LAMBDA k : k \in U)

\* BatchGetBatch sending every key the loop holds
BatchGetBatchUnsliced(keys) == keys

\* `batch = keys[:100]`
BatchGetBatch(keys) == Take(keys, BatchLimit)

\* BatchGetNextKeys resubmitting the whole batch when part of it came back
\* unprocessed
BatchGetNextKeysWholeBatch(keys, unprocessed) ==
    IF unprocessed = <<>> THEN <<>> ELSE Take(keys, BatchLimit)

\* BatchGetNextKeys giving up on the keys a response left unprocessed
BatchGetNextKeysGivingUp(keys, unprocessed) == <<>>

\* the keys the loop carries into its next iteration: `keys = unprocessed`
BatchGetNextKeys(keys, unprocessed) == unprocessed

BatchGetIdle ==
    /\ bg_pc = "idle"
    /\ bg_arg = <<>>
    /\ bg_keys = <<>>
    /\ bg_all_items = <<>>
    /\ bg_requests = <<>>
    /\ bg_unprocessed = <<>>
    /\ bg_throttled = 0
    /\ bg_result = <<>>

InitBatchTable == bg_table \in {AllKeys \ M : M \in SUBSET MissingCandidates}

\* the call: `all_items = []`, entering `while keys:`
BatchGetStart ==
    /\ bg_pc = "idle"
    /\ \E n \in 0..MaxKeys :
        /\ bg_arg' = [i \in 1..n |-> i]
        /\ bg_keys' = [i \in 1..n |-> i]
    /\ bg_all_items' = <<>>
    /\ bg_requests' = <<>>
    /\ bg_unprocessed' = <<>>
    /\ bg_throttled' = 0
    /\ bg_result' = <<>>
    /\ bg_pc' = "loop"
    /\ UNCHANGED <<bg_table, bg_stuck>>

\* one iteration of `while keys:` whose request the backend answers
BatchGetRequest ==
    /\ bg_pc = "loop"
    /\ bg_keys # <<>>
    /\ LET batch == BatchGetBatch(bg_keys)
       IN  \E U \in SUBSET (FlakyKeys \cap Range(batch)) :
            /\ U # {} => bg_throttled < MaxThrottles
            /\ bg_requests' = Append(bg_requests, batch)
            /\ bg_all_items' = bg_all_items \o BatchGetResponses(batch, U)
            /\ bg_unprocessed' = BatchGetUnprocessedKeys(batch, U)
            /\ bg_keys' = BatchGetNextKeys(bg_keys, BatchGetUnprocessedKeys(batch, U))
            /\ bg_throttled' = IF U = {} THEN bg_throttled ELSE bg_throttled + 1
    /\ UNCHANGED <<bg_table, bg_pc, bg_arg, bg_stuck, bg_result>>

\* one iteration whose request the backend rejects: the ClientError is
\* logged and raised again
BatchGetError ==
    /\ bg_pc = "loop"
    /\ bg_keys # <<>>
    /\ bg_requests' = Append(bg_requests, BatchGetBatch(bg_keys))
    /\ bg_pc' = "raised"
    /\ UNCHANGED <<bg_table, bg_arg, bg_keys, bg_all_items, bg_unprocessed,
                   bg_throttled, bg_stuck, bg_result>>

\* `keys` is empty: `return all_items`
BatchGetReturn ==
    /\ bg_pc = "loop"
    /\ bg_keys = <<>>
    /\ bg_result' = bg_all_items
    /\ bg_pc' = "done"
    /\ UNCHANGED <<bg_table, bg_arg, bg_keys, bg_all_items, bg_requests,
                   bg_unprocessed, bg_throttled, bg_stuck>>

\* ---- the same loop against a backend that may leave keys unprocessed
\* ---- any number of times

\* the requests a run keeps in bg_requests: the first MaxLogged of the call
MaxLogged == 3

Logged(requests, batch) ==
    IF Len(requests) < MaxLogged THEN Append(requests, batch) ELSE requests

\* the UnprocessedKeys the backend may report for a batch: the keys it never
\* processes, every time, when the batch holds one of them; else any of the
\* keys it may throttle
BackendUnprocessed(batch) ==
    IF bg_stuck \cap Range(batch) # {}
    THEN {bg_stuck \cap Range(batch)}
    ELSE SUBSET (FlakyKeys \cap Range(batch))

\* one iteration of `while keys:` whose request the backend answers, with
\* no bound on the responses that report unprocessed keys; bg_throttled
\* counts them modulo MaxThrottles + 1
BatchGetIteration ==
    /\ bg_pc = "loop"
    /\ bg_keys # <<>>
    /\ LET batch == BatchGetBatch(bg_keys)
       IN  \E U \in BackendUnprocessed(batch) :
            /\ bg_requests' = Logged(bg_requests, batch)
            /\ bg_all_items' = bg_all_items \o BatchGetResponses(batch, U)
            /\ bg_unprocessed' = BatchGetUnprocessedKeys(batch, U)
            /\ bg_keys' = BatchGetNextKeys(bg_keys, BatchGetUnprocessedKeys(batch, U))
            /\ bg_throttled' = IF U = {} THEN bg_throttled
                                ELSE (bg_throttled + 1) % (MaxThrottles + 1)
    /\ UNCHANGED <<bg_table, bg_pc, bg_arg, bg_stuck, bg_result>>

\* an iteration in which the backend processes key k of the batch
BackendProcesses(k) ==
    /\ k \in Range(BatchGetBatch(bg_keys))
    /\ BatchGetIteration
    /\ k \notin Range(bg_unprocessed')

NextBatchUnbounded ==
    \/ BatchGetStart /\ UNCHANGED outsideBatch
    \/ BatchGetIteration /\ UNCHANGED outsideBatch
    \/ BatchGetError /\ UNCHANGED outsideBatch
    \/ BatchGetReturn /\ UNCHANGED outsideBatch

\* the interpreter runs the loop on: an iteration that can be taken is
\* taken, and so is the return; a backend that processes keys processes
\* each key that keeps being resubmitted
BatchFairness ==
    /\ WF_vars(BatchGetIteration /\ UNCHANGED outsideBatch)
    /\ WF_vars(BatchGetReturn /\ UNCHANGED outsideBatch)
    /\ \A k \in FlakyKeys : SF_vars(BackendProcesses(k) /\ UNCHANGED outsideBatch)

NextBatch ==
    \/ BatchGetStart /\ UNCHANGED outsideBatch
    \/ BatchGetRequest /\ UNCHANGED outsideBatch
    \/ BatchGetError /\ UNCHANGED outsideBatch
    \/ BatchGetReturn /\ UNCHANGED outsideBatch

----------------------------------------------------------------------------
(* DynamoDBHelper.query_by_index and query_items_by_begins_pk_sk           *)

\* the most items the key condition selects
MaxItems == 4

\* the largest `limit` a caller passes
MaxLimit == 3

\* an item of the index: its position in index order, and whether the
\* filter expression (when one is given) accepts it
IndexItem(i, pass) == [id |-> i, pass |-> pass]

\* no LastEvaluatedKey in the response
NoKey == 0

\* One Query request: the backend evaluates n items after `start`, returns
\* those the filter accepts, and names the last evaluated item when it may
\* hold more.
QueryResponse(start, n, filtered, more) ==
    [Items |-> SelectSeq(SubSeq(q_index, start + 1, start + n),
                         LAMBDA it : ~filtered \/ it.pass),
     LastEvaluatedKey |-> IF more THEN start + n ELSE NoKey]

\* The answers the backend may give to a request that starts after `start`:
\* it evaluates at most `limit` items, at least one while items remain, and
\* it omits LastEvaluatedKey only at the end of the index.
QueryResponses(start, limit, filtered) ==
    LET remaining == Len(q_index) - start
        counts == IF remaining = 0 THEN {0} ELSE 1..Min(limit, remaining)
        mores(n) == {m \in BOOLEAN : /\ (n < remaining => m)
                                     /\ (m /\ n = remaining => n = limit)}
    IN  UNION {{QueryResponse(start, n, filtered, more) : more \in mores(n)} :
                n \in counts}

\* key conditions, as boto3.dynamodb.conditions builds them
KeyEq(name, value) == [op |-> "eq", name |-> name, value |-> value]

KeyBeginsWith(name, value) ==
    [op |-> "begins_with", name |-> name, value |-> value]

KeyAnd(left, right) == [op |-> "and", left |-> left, right |-> right]

\* `Key(self.pk_name).begins_with(partition_key) &
\*  Key(self.sk_name).begins_with(sort_key_portion)`
BeginsKeyCondition(partition_key, sort_key_portion) ==
    KeyAnd(KeyBeginsWith("pk_name", partition_key),
           KeyBeginsWith("sk_name", sort_key_portion))

\* one Query request: its key condition and, on a follow-up page, where to
\* resume
QueryRequest(key_condition, start) ==
    [KeyConditionExpression |-> key_condition, ExclusiveStartKey |-> start]

\* the partition values and sort-key portions a caller passes, and the key
\* condition a caller of query_by_index passes
PartitionValues == {"SYL", "SYL#1"}

SortKeyPortions == {"", "RES"}

IndexKeyConditions == {KeyEq("index_key", "v")}

\* QueryExtend with `all_items = response.get("Items", [])`
QueryExtendOverwrites(all_items, response) == response.Items

\* `all_items.extend(response.get("Items", []))`
QueryExtend(all_items, response) == all_items \o response.Items

QueryIdle ==
    /\ q_pc = "idle"
    /\ q_op = None
    /\ q_limit = 1
    /\ q_filter = FALSE
    /\ q_all_items = <<>>
    /\ q_response = [Items |-> <<>>, LastEvaluatedKey |-> NoKey]
    /\ q_pages = <<>>
    /\ q_args = <<>>
    /\ q_key_condition = <<>>
    /\ q_requests = <<>>
    /\ q_result = <<>>

InitQueryIndex ==
    \E n \in 0..MaxItems : \E P \in SUBSET (1..n) :
        q_index = [i \in 1..n |-> IndexItem(i, i \in P)]

\* the first request of a call of `op`
QueryFirst(op, args, key_condition, limit, filtered) ==
    /\ q_pc = "idle"
    /\ q_op' = op
    /\ q_args' = args
    /\ q_key_condition' = key_condition
    /\ q_requests' = <<QueryRequest(key_condition, NoKey)>>
    /\ q_limit' = limit
    /\ q_filter' = filtered
    /\ \E r \in QueryResponses(0, limit, filtered) :
        /\ q_response' = r
        /\ q_all_items' = QueryExtend(<<>>, r)
        /\ q_pages' = <<r.Items>>
    /\ q_result' = <<>>
    /\ q_pc' = "paging"
    /\ UNCHANGED q_index

\* one iteration of `while "LastEvaluatedKey" in response:`
QueryNext(op) ==
    /\ q_pc = "paging"
    /\ q_op = op
    /\ q_response.LastEvaluatedKey # NoKey
    /\ \E r \in QueryResponses(q_response.LastEvaluatedKey, q_limit, q_filter) :
        /\ q_response' = r
        /\ q_all_items' = QueryExtend(q_all_items, r)
        /\ q_pages' = Append(q_pages, r.Items)
    /\ q_requests' = Append(q_requests,
            QueryRequest(q_key_condition, q_response.LastEvaluatedKey))
    /\ UNCHANGED <<q_index, q_pc, q_op, q_limit, q_filter, q_args,
                   q_key_condition, q_result>>

\* a request the backend rejects: the ClientError is logged and raised again
QueryError(op) ==
    /\ q_pc = "paging"
    /\ q_op = op
    /\ q_response.LastEvaluatedKey # NoKey
    /\ q_pc' = "raised"
    /\ q_requests' = Append(q_requests,
            QueryRequest(q_key_condition, q_response.LastEvaluatedKey))
    /\ UNCHANGED <<q_index, q_op, q_limit, q_filter, q_all_items, q_response,
                   q_pages, q_args, q_key_condition, q_result>>

\* the response carries no LastEvaluatedKey: `return all_items`
QueryReturn(op) ==
    /\ q_pc = "paging"
    /\ q_op = op
    /\ q_response.LastEvaluatedKey = NoKey
    /\ q_result' = q_all_items
    /\ q_pc' = "done"
    /\ UNCHANGED <<q_index, q_op, q_limit, q_filter, q_all_items, q_response,
                   q_pages, q_args, q_key_condition, q_requests>>

QueryByIndexFirst ==
    \E limit \in 1..MaxLimit, filtered \in BOOLEAN :
        \E key_condition_expression \in IndexKeyConditions :
            QueryFirst("query_by_index", <<key_condition_expression>>,
                       key_condition_expression, limit, filtered)

QueryByIndexNext == QueryNext("query_by_index")

QueryByIndexError == QueryError("query_by_index")

QueryByIndexReturn == QueryReturn("query_by_index")

QueryBeginsFirst ==
    \E limit \in 1..MaxLimit :
        \E partition_key \in PartitionValues :
            \E sort_key_portion \in SortKeyPortions :
                QueryFirst("query_items_by_begins_pk_sk",
                           <<partition_key, sort_key_portion>>,
                           BeginsKeyCondition(partition_key, sort_key_portion),
                           limit, FALSE)

QueryBeginsNext == QueryNext("query_items_by_begins_pk_sk")

QueryBeginsError == QueryError("query_items_by_begins_pk_sk")

QueryBeginsReturn == QueryReturn("query_items_by_begins_pk_sk")

NextQuery ==
    \/ QueryByIndexFirst /\ UNCHANGED outsideQuery
    \/ QueryByIndexNext /\ UNCHANGED outsideQuery
    \/ QueryByIndexError /\ UNCHANGED outsideQuery
    \/ QueryByIndexReturn /\ UNCHANGED outsideQuery
    \/ QueryBeginsFirst /\ UNCHANGED outsideQuery
    \/ QueryBeginsNext /\ UNCHANGED outsideQuery
    \/ QueryBeginsError /\ UNCHANGED outsideQuery
    \/ QueryBeginsReturn /\ UNCHANGED outsideQuery

----------------------------------------------------------------------------
(* DynamoDBHelper.scan_table and query_table                               *)

\* `limit` left at None
NoLimit == 0

Reverse(s) == [i \in 1..Len(s) |-> s[Len(s) + 1 - i]]

\* the order in which the backend reads the selected items: ascending sort
\* key, or descending when the request says ScanIndexForward = False
ReadOrder(scan_index_forward) ==
    IF scan_index_forward THEN q_index ELSE Reverse(q_index)

\* the first page of a Scan or Query: the backend evaluates n items of the
\* order, returns those the filter accepts, and names the last evaluated
\* item when it holds more
FirstPage(order, n, filtered, more) ==
    [Items |-> SelectSeq(SubSeq(order, 1, n), LAMBDA it : ~filtered \/ it.pass),
     LastEvaluatedKey |-> IF more THEN n ELSE NoKey]

\* the first pages the backend may answer with: it evaluates at most Limit
\* items when the request carries one, and it may stop earlier on its own
\* (the 1 MB bound of a page); it omits LastEvaluatedKey only at the end
FirstPages(order, limit, filtered) ==
    LET counts == IF order = <<>> THEN {0}
                  ELSE 1..(IF limit = NoLimit THEN Len(order)
                           ELSE Min(limit, Len(order)))
    IN  {FirstPage(order, n, filtered, n < Len(order)) : n \in counts}

\* scan_params / query_params: the optional entries are set only when the
\* argument is truthy, ScanIndexForward only `if not scan_forward`
ReadParams(key_condition, filtered, limit, scan_forward) ==
    [KeyConditionExpression |-> key_condition,
     FilterExpression |-> filtered,
     Limit |-> limit,
     ScanIndexForward |-> IF ~scan_forward THEN Some(FALSE) ELSE Nothing]

\* the backend reads in ascending order unless told ScanIndexForward = False
ForwardOf(params) ==
    IF params.ScanIndexForward = Nothing THEN TRUE
    ELSE Value(params.ScanIndexForward)

\* `items = response.get('Items', [])`
TableReadItems(response, params) == response.Items

\* a call of scan_table or query_table: one request, and the items of its
\* response are returned
TableRead(op, params) ==
    /\ q_pc = "idle"
    /\ q_op' = op
    /\ q_limit' = params.Limit
    /\ q_filter' = params.FilterExpression
    /\ q_args' = <<params.KeyConditionExpression>>
    /\ q_key_condition' = params.KeyConditionExpression
    /\ q_requests' = <<params>>
    /\ \E r \in FirstPages(ReadOrder(ForwardOf(params)), params.Limit,
                           params.FilterExpression) :
        /\ q_response' = r
        /\ q_all_items' = TableReadItems(r, params)
        /\ q_pages' = <<r.Items>>
        /\ q_result' = TableReadItems(r, params)
    /\ q_pc' = "done"
    /\ UNCHANGED q_index

\* a call whose request the backend rejects: the error is logged and raised
\* again
TableReadError(op, params) ==
    /\ q_pc = "idle"
    /\ q_op' = op
    /\ q_limit' = params.Limit
    /\ q_filter' = params.FilterExpression
    /\ q_args' = <<params.KeyConditionExpression>>
    /\ q_key_condition' = params.KeyConditionExpression
    /\ q_requests' = <<params>>
    /\ q_pc' = "raised"
    /\ UNCHANGED <<q_index, q_all_items, q_response, q_pages, q_result>>

ScanParams ==
    {ReadParams(None, filtered, limit, TRUE) :
        filtered \in BOOLEAN, limit \in {NoLimit} \cup 1..MaxLimit}

QueryParams ==
    {ReadParams(key_condition, filtered, limit, scan_forward) :
        key_condition \in IndexKeyConditions, filtered \in BOOLEAN,
        limit \in {NoLimit} \cup 1..MaxLimit, scan_forward \in BOOLEAN}

ScanTable == \E params \in ScanParams : TableRead("scan_table", params)

ScanTableError ==
    \E params \in ScanParams : TableReadError("scan_table", params)

QueryTable == \E params \in QueryParams : TableRead("query_table", params)

QueryTableError ==
    \E params \in QueryParams : TableReadError("query_table", params)

NextTableRead ==
    \/ ScanTable /\ UNCHANGED outsideQuery
    \/ ScanTableError /\ UNCHANGED outsideQuery
    \/ QueryTable /\ UNCHANGED outsideQuery
    \/ QueryTableError /\ UNCHANGED outsideQuery

----------------------------------------------------------------------------
(* DynamoDBHelper.get_item, put_item, update_item, delete_item and         *)
(* utils.get_title_from_resource_id                                        *)

\* partition key values and sort key values
PKs == {"p1", "p2"}
SKs == {"s1"}

\* the values of the item's one non-key attribute (resource_title in the
\* resources table); NoAttr: the item has no such attribute
Values == {"v1", "v2"}
NoAttr == "NoAttr"

\* no item under the key
NoItem == "NoItem"

\* a key as sent to the backend: <<partition value, sort value or None>>
TableKeys == PKs \X ({None} \cup SKs)

\* the error codes of the backend's ClientError
ConditionFailed == "ConditionalCheckFailedException"
ValidationError == "ValidationException"
Throttled == "ProvisionedThroughputExceededException"

\* the condition expressions callers pass; None: no condition
Conditions == {None, "attribute_exists", "attribute_not_exists"}

\* key = {pk_name: partition_key}; the sort key is added only
\* `if sort_key and self.sk_name`
BuildKey(partition_key, sort_key) ==
    <<partition_key,
      IF sort_key # None /\ t_sk_name # None THEN sort_key ELSE None>>

\* the key matches the table's key schema
KeyValid(key) == (key[2] = None) = (t_sk_name = None)

\* the backend's evaluation of a condition expression against the item
\* stored under `key`
ConditionHolds(items, key, condition) ==
    CASE condition = "attribute_exists" -> items[key] # NoItem
      [] condition = "attribute_not_exists" -> items[key] = NoItem
      [] OTHER -> TRUE

\* ConditionSent with the condition left out of kwargs
ConditionNeverSent(condition) == None

\* kwargs["ConditionExpression"] is set only `if condition:`
ConditionSent(condition) == condition

\* The backend's verdict on a write request: a fault of its own (throttling),
\* a key that does not match the schema, a condition that does not hold, or
\* None when it applies the write.
WriteError(items, key, condition, fault) ==
    IF fault # None THEN fault
    ELSE IF ~KeyValid(key) THEN ValidationError
    ELSE IF ~ConditionHolds(items, key, condition) THEN ConditionFailed
    ELSE None

\* The backend's verdict on a GetItem request.
ReadError(key, fault) ==
    IF fault # None THEN fault
    ELSE IF ~KeyValid(key) THEN ValidationError
    ELSE None

Faults == {None, Throttled}

\* GetItemOutcome with `response["Item"]`, a KeyError when no item came back
GetItemOutcomeSubscripts(partition_key, sort_key, fault) ==
    LET key == BuildKey(partition_key, sort_key)
        error == ReadError(key, fault)
    IN  [key |-> key,
         error |-> IF error = None /\ t_items[key] = NoItem
                   THEN "KeyError" ELSE error,
         result |-> IF error = None /\ t_items[key] # NoItem
                    THEN t_items[key] ELSE None]

\* get_item as a function of the backend's answer: the error raised (None
\* when it returns) and the value returned (`response.get("Item")`)
GetItemOutcome(partition_key, sort_key, fault) ==
    LET key == BuildKey(partition_key, sort_key)
        error == ReadError(key, fault)
    IN  [key |-> key,
         error |-> error,
         result |-> IF error = None /\ t_items[key] # NoItem
                    THEN t_items[key] ELSE None]

\* what a call leaves behind for the claims to read
Call(op, key, condition, fault, error, result) ==
    [op |-> op, key |-> key, condition |-> condition, fault |-> fault,
     error |-> error, result |-> result, requests |-> 1]

InitItem ==
    /\ t_sk_name \in {None, "sk"}
    /\ t_items = [k \in TableKeys |-> NoItem]
    /\ t_before = [k \in TableKeys |-> NoItem]
    /\ t_last = Call(None, <<"p1", None>>, None, None, None, None)

\* get_item(partition_key, sort_key)
GetItem ==
    \E pk \in PKs, sk \in {None} \cup SKs, fault \in Faults :
        LET out == GetItemOutcome(pk, sk, fault)
        IN  /\ t_last' = Call("get_item", out.key, None, fault, out.error,
                              out.result)
            /\ t_before' = t_items
            /\ UNCHANGED <<t_sk_name, t_items>>

\* put_item(data, condition): data carries the key and the attribute
PutItem ==
    \E key \in TableKeys, value \in Values \cup {NoAttr},
       condition \in Conditions, fault \in Faults :
        LET error == WriteError(t_items, key, ConditionSent(condition), fault)
        IN  /\ t_items' = IF error = None
                          THEN [t_items EXCEPT ![key] = value] ELSE t_items
            /\ t_last' = Call("put_item", key, condition, fault, error, None)
            /\ t_before' = t_items
            /\ UNCHANGED t_sk_name

\* update_item(partition_key, sort_key, "SET attr = :val", {":val": value},
\* condition_expression): the backend creates the item when it is absent
UpdateItem ==
    \E pk \in PKs, sk \in {None} \cup SKs, value \in Values,
       condition \in Conditions, fault \in Faults :
        LET key == BuildKey(pk, sk)
            error == WriteError(t_items, key, ConditionSent(condition), fault)
        IN  /\ t_items' = IF error = None
                          THEN [t_items EXCEPT ![key] = value] ELSE t_items
            /\ t_last' = Call("update_item", key, condition, fault, error, None)
            /\ t_before' = t_items
            /\ UNCHANGED t_sk_name

\* delete_item(partition_key, sort_key, condition_expression)
DeleteItem ==
    \E pk \in PKs, sk \in {None} \cup SKs,
       condition \in Conditions, fault \in Faults :
        LET key == BuildKey(pk, sk)
            error == WriteError(t_items, key, ConditionSent(condition), fault)
        IN  /\ t_items' = IF error = None
                          THEN [t_items EXCEPT ![key] = NoItem] ELSE t_items
            /\ t_last' = Call("delete_item", key, condition, fault, error, None)
            /\ t_before' = t_items
            /\ UNCHANGED t_sk_name

\* the title get_title_from_resource_id returns for what get_item gave it:
\* `if item and "resource_title" in item`, and None when get_item raised
TitleOf(out) ==
    IF out.error = None /\ out.result # None /\ out.result # NoAttr
    THEN out.result ELSE None

\* utils.get_title_from_resource_id(resource_id), on the resources table,
\* whose helper has no sort key; it catches every exception
GetTitleFromResourceId ==
    /\ t_sk_name = None
    /\ \E pk \in PKs, fault \in Faults :
        LET out == GetItemOutcome(pk, None, fault)
        IN  /\ t_last' = Call("get_title_from_resource_id", out.key, None,
                              fault, None, TitleOf(out))
            /\ t_before' = t_items
            /\ UNCHANGED <<t_sk_name, t_items>>

NextItem ==
    \/ GetItem /\ UNCHANGED outsideItem
    \/ PutItem /\ UNCHANGED outsideItem
    \/ UpdateItem /\ UNCHANGED outsideItem
    \/ DeleteItem /\ UNCHANGED outsideItem
    \/ GetTitleFromResourceId /\ UNCHANGED outsideItem

\* the other components at rest
ItemIdle ==
    /\ t_sk_name = None
    /\ t_items = [k \in TableKeys |-> NoItem]
    /\ t_before = [k \in TableKeys |-> NoItem]
    /\ t_last = Call(None, <<"p1", None>>, None, None, None, None)

----------------------------------------------------------------------------
(* S3Helper: the bucket, and object_exists                                 *)

\* the characters of object keys, in the backend's listing (byte) order
Alphabet == <<"/", "a", "b", "c", "d", "e">>

Rank(c) == CHOOSE i \in 1..Len(Alphabet) : Alphabet[i] = c

RECURSIVE KeyLess(_, _)
\* k1 sorts before k2 in a listing
KeyLess(k1, k2) ==
    IF k1 = <<>> THEN k2 # <<>>
    ELSE IF k2 = <<>> THEN FALSE
    ELSE IF Head(k1) = Head(k2) THEN KeyLess(Tail(k1), Tail(k2))
    ELSE Rank(Head(k1)) < Rank(Head(k2))

\* an entry of a listing's Contents
Object(key, size) == [Key |-> key, Size |-> size]

\* the objects a bucket may hold: a, d/b, d/c, e
Universe ==
    {Object(<<"a">>, 0), Object(<<"d", "/", "b">>, 2),
     Object(<<"d", "/", "c">>, 3), Object(<<"e">>, 2)}

\* keys callers ask about: those of the universe and one that is never stored
ObjectKeys == {o.Key : o \in Universe} \cup {<<"b">>}

InitBucket == s3_bucket \in SUBSET Universe

\* the error code of head_object for a missing key
NotFound == "404"

\* The backend's answers to head_object: "ok", or the code of a ClientError.
\* A stored object may be refused or fail; a missing one is reported as not
\* found, or as forbidden to a caller that may not list the bucket.
HeadObjectAnswers(key) ==
    IF \E o \in s3_bucket : o.Key = key
    THEN {"ok", "403", "500"}
    ELSE {NotFound, "403"}

\* ObjectExistsOutcome with `return False` for every ClientError
ObjectExistsOutcomeAnyError(head) ==
    IF head = "ok" THEN [returned |-> TRUE, value |-> TRUE, error |-> None]
    ELSE [returned |-> TRUE, value |-> FALSE, error |-> None]

\* object_exists as a function of the backend's answer
ObjectExistsOutcome(head) ==
    IF head = "ok" THEN [returned |-> TRUE, value |-> TRUE, error |-> None]
    ELSE IF head = NotFound
    THEN [returned |-> TRUE, value |-> FALSE, error |-> None]
    ELSE [returned |-> FALSE, value |-> FALSE, error |-> head]

ObjectCall(op, key, head, out) ==
    [op |-> op, key |-> key, head |-> head, returned |-> out.returned,
     value |-> out.value, error |-> out.error]

ObjectIdle ==
    o_last = ObjectCall(None, <<>>, None,
                        [returned |-> FALSE, value |-> FALSE, error |-> None])

\* object_exists(object_key)
ObjectExists ==
    \E key \in ObjectKeys : \E head \in HeadObjectAnswers(key) :
        /\ o_last' = ObjectCall("object_exists", key, head,
                                ObjectExistsOutcome(head))
        /\ UNCHANGED s3_bucket

NextObject ==
    \/ ObjectExists /\ UNCHANGED outsideObject

----------------------------------------------------------------------------
(* S3Helper.list_objects and list_objects_by_size                          *)

\* the largest `max_keys` a caller passes
MaxPageKeys == 3

\* the largest `max_pages` a caller passes
MaxPagesCap == 3

\* the largest `min_size` or `max_size` a caller passes
MaxSize == 3

StartsWith(key, prefix) ==
    Len(prefix) <= Len(key) /\ SubSeq(key, 1, Len(prefix)) = prefix

RECURSIVE SortByKey(_)
\* the objects of S in listing order
SortByKey(S) ==
    IF S = {} THEN <<>>
    ELSE LET first == CHOOSE o \in S :
                        \A x \in S \ {o} : KeyLess(o.Key, x.Key)
         IN  <<first>> \o SortByKey(S \ {first})

\* An entry of a listing: an object, or (common) the prefix that stands for
\* every key with a delimiter after the listing's prefix.
ListingEntry(obj, prefix, delimiter) ==
    LET rest == Drop(obj.Key, Len(prefix))
        cuts == {i \in 1..Len(rest) : Given(delimiter) /\ rest[i] = Value(delimiter)}
    IN  IF cuts = {}
        THEN [common |-> FALSE, Key |-> obj.Key, Size |-> obj.Size]
        ELSE LET cut == CHOOSE i \in cuts : \A j \in cuts : i <= j
             IN  [common |-> TRUE, Key |-> Take(obj.Key, Len(prefix) + cut),
                  Size |-> 0]

RECURSIVE Dedup(_)
\* s without the repetitions of an element that follow it directly
Dedup(s) ==
    IF Len(s) <= 1 THEN s
    ELSE IF s[1] = s[2] THEN Dedup(Tail(s))
    ELSE <<s[1]>> \o Dedup(Tail(s))

\* the entries of the listing of `bucket` under `prefix`, in order
ListingEntries(bucket, prefix, delimiter) ==
    LET sorted == SortByKey({o \in bucket : StartsWith(o.Key, prefix)})
    IN  Dedup([i \in 1..Len(sorted) |->
                 ListingEntry(sorted[i], prefix, delimiter)])

\* one page of the paginator: Contents and CommonPrefixes of the entries
ListingPage(entries) ==
    LET objs == SelectSeq(entries, LAMBDA e : ~e.common)
        pres == SelectSeq(entries, LAMBDA e : e.common)
    IN  [Contents |-> [i \in 1..Len(objs) |-> Object(objs[i].Key, objs[i].Size)],
         CommonPrefixes |-> [i \in 1..Len(pres) |-> pres[i].Key]]

\* The pages list_objects_v2 delivers: max_keys entries a page, and a single
\* empty page for an empty listing.
ListingPages(bucket, prefix, delimiter, max_keys) ==
    LET entries == ListingEntries(bucket, prefix, delimiter)
        n == IF entries = <<>> THEN 1 ELSE CeilDiv(Len(entries), max_keys)
    IN  [i \in 1..n |->
            ListingPage(SubSeq(entries, (i - 1) * max_keys + 1,
                               Min(i * max_keys, Len(entries))))]

\* kwargs['Prefix'] is set only `if prefix:`; the backend's default is the
\* empty prefix
KwPrefix(prefix) == IF Given(prefix) THEN Value(prefix) ELSE <<>>

\* the pages of the running call
CallPages ==
    ListingPages(s3_bucket, KwPrefix(l_args.prefix), l_args.delimiter,
                 l_args.max_keys)

\* CapReached with `page_count > max_pages`
CapReachedLate(max_pages, page_count) ==
    /\ Given(max_pages)
    /\ Value(max_pages) # 0
    /\ page_count > Value(max_pages)

\* CapReached with `max_pages is not None` for the truth value of max_pages
CapReachedAlsoAtZero(max_pages, page_count) ==
    /\ Given(max_pages)
    /\ page_count >= Value(max_pages)

\* `if max_pages and page_count >= max_pages: break`
CapReached(max_pages, page_count) ==
    /\ Given(max_pages)
    /\ Value(max_pages) # 0
    /\ page_count >= Value(max_pages)

\* SizeInRange with `size <= min_size` and `size >= max_size` excluded
SizeInRangeExclusive(size, min_size, max_size) ==
    /\ ~(Given(min_size) /\ size <= Value(min_size))
    /\ ~(Given(max_size) /\ size >= Value(max_size))

\* the test of list_objects_by_size: neither `size < min_size` nor
\* `size > max_size`, a bound of None not tested
SizeInRange(size, min_size, max_size) ==
    /\ ~(Given(min_size) /\ size < Value(min_size))
    /\ ~(Given(max_size) /\ size > Value(max_size))

\* the latest day a caller names in start_date or end_date
MaxDay == 3

\* a datetime: the day, and the time of the day
DateTime(day, time) == [day |-> day, time |-> time]

\* `dt.date()`
DateOf(dt) == dt.day

\* datetime.fromisoformat(text) for an ISO text, here <<day>> for a date and
\* <<day, time>> for a date with a time; a date alone is its midnight
FromIsoFormat(text) ==
    IF Len(text) = 1 THEN DateTime(text[1], 0) ELSE DateTime(text[1], text[2])

\* the LastModified the backend reports for an object of the universe
LastModified(obj) ==
    CASE obj.Key = <<"a">> -> DateTime(1, 1)
      [] obj.Key = <<"d", "/", "b">> -> DateTime(2, 0)
      [] obj.Key = <<"d", "/", "c">> -> DateTime(2, 1)
      [] OTHER -> DateTime(3, 1)

\* `if start_date:` and `if end_date:`: None and the empty text do not
\* restrict
DateGiven(date) == Given(date) /\ Value(date) # <<>>

\* InDateRange comparing the datetimes and not their dates
InDateRangeToTheInstant(last_modified, start_date, end_date) ==
    LET before(a, b) == a.day < b.day \/ (a.day = b.day /\ a.time < b.time)
    IN  /\ ~(DateGiven(start_date)
              /\ before(last_modified, FromIsoFormat(Value(start_date))))
        /\ ~(DateGiven(end_date)
              /\ before(FromIsoFormat(Value(end_date)), last_modified))

\* the test of list_objects_by_last_modified: neither
\* `last_modified.date() < fromisoformat(start_date).date()` nor
\* `last_modified.date() > fromisoformat(end_date).date()`
InDateRange(last_modified, start_date, end_date) ==
    /\ ~(DateGiven(start_date)
          /\ DateOf(last_modified) < DateOf(FromIsoFormat(Value(start_date))))
    /\ ~(DateGiven(end_date)
          /\ DateOf(last_modified) > DateOf(FromIsoFormat(Value(end_date))))

\* what the running function returns once list_objects has returned
\* `all_objects`
ListingResult(op, all_objects, args) ==
    IF op = "list_objects_by_size"
    THEN SelectSeq(all_objects,
                   LAMBDA obj : SizeInRange(obj.Size, args.min_size, args.max_size))
    ELSE IF op = "list_objects_by_last_modified"
    THEN SelectSeq(all_objects,
                   LAMBDA obj : InDateRange(LastModified(obj), args.start_date,
                                            args.end_date))
    ELSE all_objects

ListArgs(prefix, delimiter, max_keys, max_pages, min_size, max_size) ==
    [prefix |-> prefix, delimiter |-> delimiter, max_keys |-> max_keys,
     max_pages |-> max_pages, min_size |-> min_size, max_size |-> max_size]

PrefixArgs == {Nothing, Some(<<>>), Some(<<"d", "/">>)}
DelimiterArgs == {Nothing, Some("/")}
MaxPagesArgs == {Nothing} \cup {Some(k) : k \in 0..MaxPagesCap}
SizeArgs == {Nothing} \cup {Some(k) : k \in 0..MaxSize}

ListIdle ==
    /\ l_pc = "idle"
    /\ l_op = None
    /\ l_args = ListArgs(Nothing, Nothing, 1, Nothing, Nothing, Nothing)
    /\ l_all_objects = <<>>
    /\ l_page_count = 0
    /\ l_result = <<>>

\* entering list_objects: `all_objects = []`, `page_count = 0`
ListStart(op, args) ==
    /\ l_pc = "idle"
    /\ l_op' = op
    /\ l_args' = args
    /\ l_all_objects' = <<>>
    /\ l_page_count' = 0
    /\ l_result' = <<>>
    /\ l_pc' = "paging"
    /\ UNCHANGED s3_bucket

\* One iteration of `for page in pages:`.  The function returns from the
\* iteration that breaks on the cap or consumes the last page.
ListPage(op) ==
    /\ l_pc = "paging"
    /\ l_op = op
    /\ l_page_count < Len(CallPages)
    /\ LET page == CallPages[l_page_count + 1]
           count == l_page_count + 1
           objects == l_all_objects \o page.Contents
           leave == CapReached(l_args.max_pages, count) \/ count = Len(CallPages)
       IN  /\ l_page_count' = count
           /\ l_all_objects' = objects
           /\ l_pc' = IF leave THEN "done" ELSE "paging"
           /\ l_result' = IF leave THEN ListingResult(op, objects, l_args)
                          ELSE l_result
    /\ UNCHANGED <<s3_bucket, l_op, l_args>>

\* a page request the backend rejects: the ClientError is logged and raised
ListError(op) ==
    /\ l_pc = "paging"
    /\ l_op = op
    /\ l_page_count < Len(CallPages)
    /\ l_pc' = "raised"
    /\ UNCHANGED <<s3_bucket, l_op, l_args, l_all_objects, l_page_count, l_result>>

ListObjectsStart ==
    \E prefix \in PrefixArgs, delimiter \in DelimiterArgs,
       max_keys \in 1..MaxPageKeys, max_pages \in MaxPagesArgs :
        ListStart("list_objects",
                  ListArgs(prefix, delimiter, max_keys, max_pages, Nothing, Nothing))

ListObjectsPage == ListPage("list_objects")

ListObjectsError == ListError("list_objects")

\* list_objects_by_size calls list_objects without a delimiter
ListObjectsBySizeStart ==
    \E prefix \in PrefixArgs, max_keys \in 1..MaxPageKeys,
       max_pages \in MaxPagesArgs, min_size \in SizeArgs, max_size \in SizeArgs :
        ListStart("list_objects_by_size",
                  ListArgs(prefix, Nothing, max_keys, max_pages, min_size, max_size))

ListObjectsBySizePage == ListPage("list_objects_by_size")

ListObjectsBySizeError == ListError("list_objects_by_size")

\* the dates a caller passes: None, the empty text, a date, a date with a
\* time
DateArgs ==
    {Nothing, Some(<<>>)} \cup {Some(<<day>>) : day \in 1..MaxDay}
        \cup {Some(<<day, 1>>) : day \in 1..MaxDay}

DatedArgs(prefix, max_keys, max_pages, start_date, end_date) ==
    [prefix |-> prefix, delimiter |-> Nothing, max_keys |-> max_keys,
     max_pages |-> max_pages, start_date |-> start_date, end_date |-> end_date]

\* list_objects_by_last_modified calls list_objects without a delimiter;
\* the smallest and the largest page size, no cap and a cap of one page
ListObjectsByLastModifiedStart ==
    \E prefix \in PrefixArgs, max_keys \in {1, MaxPageKeys},
       max_pages \in {Nothing, Some(1)}, start_date \in DateArgs,
       end_date \in DateArgs :
        ListStart("list_objects_by_last_modified",
                  DatedArgs(prefix, max_keys, max_pages, start_date, end_date))

ListObjectsByLastModifiedPage == ListPage("list_objects_by_last_modified")

ListObjectsByLastModifiedError == ListError("list_objects_by_last_modified")

NextListDates ==
    \/ ListObjectsByLastModifiedStart /\ UNCHANGED outsideList
    \/ ListObjectsByLastModifiedPage /\ UNCHANGED outsideList
    \/ ListObjectsByLastModifiedError /\ UNCHANGED outsideList

NextList ==
    \/ ListObjectsStart /\ UNCHANGED outsideList
    \/ ListObjectsPage /\ UNCHANGED outsideList
    \/ ListObjectsError /\ UNCHANGED outsideList
    \/ ListObjectsBySizeStart /\ UNCHANGED outsideList
    \/ ListObjectsBySizePage /\ UNCHANGED outsideList
    \/ ListObjectsBySizeError /\ UNCHANGED outsideList

----------------------------------------------------------------------------
(* S3Helper.list_objects_with_metadata                                     *)

\* the locals of list_objects_with_metadata
MetadataLocals(all_objects, all_common_prefixes, page_count, total_objects_found) ==
    [all_objects |-> all_objects,
     all_common_prefixes |-> all_common_prefixes,
     page_count |-> page_count,
     total_objects_found |-> total_objects_found]

RECURSIVE MetadataLoop(_, _, _)
\* `for page in pages:` from the page after locals.page_count on: the
\* locals when the loop is left, by the break or at the last page
MetadataLoop(pages, max_pages, locals) ==
    IF locals.page_count = Len(pages) THEN locals
    ELSE LET page == pages[locals.page_count + 1]
             after == MetadataLocals(
                        locals.all_objects \o page.Contents,
                        locals.all_common_prefixes \o page.CommonPrefixes,
                        locals.page_count + 1,
                        locals.total_objects_found + Len(page.Contents))
         IN  IF CapReached(max_pages, after.page_count) THEN after
             ELSE MetadataLoop(pages, max_pages, after)

\* MetadataResult counting the common prefixes among the objects
MetadataResultCountingPrefixes(locals, prefix, delimiter) ==
    [objects |-> locals.all_objects,
     common_prefixes |-> locals.all_common_prefixes,
     metadata |-> [total_objects |-> Len(locals.all_objects)
                                     + Len(locals.all_common_prefixes),
                   total_pages |-> locals.page_count,
                   prefix |-> prefix,
                   delimiter |-> delimiter]]

\* the dict list_objects_with_metadata returns
MetadataResult(locals, prefix, delimiter) ==
    [objects |-> locals.all_objects,
     common_prefixes |-> locals.all_common_prefixes,
     metadata |-> [total_objects |-> locals.total_objects_found,
                   total_pages |-> locals.page_count,
                   prefix |-> prefix,
                   delimiter |-> delimiter]]

\* list_objects_with_metadata on `bucket`, no page request rejected
list_objects_with_metadata(bucket, prefix, delimiter, max_keys, max_pages) ==
    MetadataResult(
        MetadataLoop(ListingPages(bucket, KwPrefix(prefix), delimiter, max_keys),
                     max_pages, MetadataLocals(<<>>, <<>>, 0, 0)),
        prefix, delimiter)

\* a call of list_objects_with_metadata that returns
ListObjectsWithMetadata ==
    /\ l_pc = "idle"
    /\ \E prefix \in PrefixArgs, delimiter \in DelimiterArgs,
          max_keys \in 1..MaxPageKeys, max_pages \in MaxPagesArgs :
        LET result == list_objects_with_metadata(s3_bucket, prefix, delimiter,
                                                 max_keys, max_pages)
        IN  /\ l_op' = "list_objects_with_metadata"
            /\ l_args' = ListArgs(prefix, delimiter, max_keys, max_pages,
                                  Nothing, Nothing)
            /\ l_all_objects' = result.objects
            /\ l_page_count' = result.metadata.total_pages
            /\ l_result' = result
    /\ l_pc' = "done"
    /\ UNCHANGED s3_bucket

\* a call one of whose page requests the backend rejects: the ClientError
\* is logged and raised again
ListObjectsWithMetadataError ==
    /\ l_pc = "idle"
    /\ \E prefix \in PrefixArgs, delimiter \in DelimiterArgs,
          max_keys \in 1..MaxPageKeys, max_pages \in MaxPagesArgs :
        /\ l_op' = "list_objects_with_metadata"
        /\ l_args' = ListArgs(prefix, delimiter, max_keys, max_pages,
                              Nothing, Nothing)
    /\ l_pc' = "raised"
    /\ UNCHANGED <<s3_bucket, l_all_objects, l_page_count, l_result>>

NextListMetadata ==
    \/ ListObjectsStart /\ UNCHANGED outsideList
    \/ ListObjectsPage /\ UNCHANGED outsideList
    \/ ListObjectsError /\ UNCHANGED outsideList
    \/ ListObjectsWithMetadata /\ UNCHANGED outsideList
    \/ ListObjectsWithMetadataError /\ UNCHANGED outsideList

----------------------------------------------------------------------------
(* S3Helper.list_objects_recursively                                       *)

\* the most calls of list_objects_recursively in progress at once in a run
MaxDepth == 4

\* the objects a bucket of directories may hold: a, db, d/, d/b, d/c/e,
\* d//a
TreeUniverse ==
    {Object(<<"a">>, 0), Object(<<"d", "b">>, 1),
     Object(<<"d", "/">>, 0), Object(<<"d", "/", "b">>, 2),
     Object(<<"d", "/", "c", "/", "e">>, 3),
     Object(<<"d", "/", "/", "a">>, 1)}

\* the prefixes a call on a bucket of TreeUniverse is made with
TreePrefixes ==
    {Nothing, Some(<<>>), Some(<<"d">>), Some(<<"d", "/">>),
     Some(<<"d", "/", "c", "/">>), Some(<<"d", "/", "/">>)}

\* the answers of list_objects_with_metadata(prefix, delimiter='/') on each
\* bucket, tabulated (`@@ <<>>` has TLC compute the table once)
LevelListings ==
    [bucket \in SUBSET TreeUniverse, prefix \in TreePrefixes,
     max_keys \in {1, MaxPageKeys}, max_pages \in {Nothing, Some(1)} |->
        list_objects_with_metadata(bucket, prefix, Some("/"), max_keys,
                                   max_pages)] @@ <<>>

\* the result of list_objects_with_metadata(prefix, delimiter='/') for one
\* directory level; a backend with r_loop set returns that prefix among the
\* common prefixes of its own listing
TreeListing(prefix, max_keys, max_pages) ==
    LET result == LevelListings[s3_bucket, prefix, max_keys, max_pages]
    IN  IF Given(r_loop) /\ KwPrefix(prefix) = Value(r_loop)
        THEN [result EXCEPT !.common_prefixes = <<Value(r_loop)>> \o @]
        ELSE result

\* Subdirectories skipping a common prefix equal to the prefix listed
SubdirectoriesGuarded(result, prefix) ==
    SelectSeq(result.common_prefixes, LAMBDA cp : cp # KwPrefix(prefix))

\* `for common_prefix in result['common_prefixes']`: the prefixes the call
\* recurses into
Subdirectories(result, prefix) == result.common_prefixes

\* DirectoryStructure without the subdirectories
DirectoryStructureFlat(files, directories) ==
    [files |-> files, directories |-> <<>>]

\* directory_structure: 'files' and 'directories', a dict kept here as the
\* sequence of its entries in insertion order
DirectoryStructure(files, directories) ==
    [files |-> files, directories |-> directories]

\* `directories[prefix_key] = subdir_result`
DictSet(entries, key, value) ==
    IF \E i \in 1..Len(entries) : entries[i].key = key
    THEN [i \in 1..Len(entries) |->
            IF entries[i].key = key THEN [key |-> key, value |-> value]
            ELSE entries[i]]
    ELSE Append(entries, [key |-> key, value |-> value])

\* the frame of a call once its listing has returned
Frame(prefix, result) ==
    [prefix |-> prefix,
     files |-> result.objects,
     pending |-> Subdirectories(result, prefix),
     directories |-> <<>>]

TreeArgs ==
    {[prefix |-> prefix, max_keys |-> max_keys, max_pages |-> max_pages] :
        prefix \in {Nothing, Some(<<>>), Some(<<"d">>), Some(<<"d", "/">>)},
        max_keys \in {1, MaxPageKeys},
        max_pages \in {Nothing, Some(1)}}

InitTreeBucket ==
    /\ s3_bucket \in SUBSET TreeUniverse
    /\ r_loop \in {Nothing, Some(<<"d", "/">>)}

TreeIdle ==
    /\ r_pc = "idle"
    /\ r_args = <<>>
    /\ r_stack = <<>>
    /\ r_listings = <<>>
    /\ r_result = <<>>

\* the outermost call: its listing returns
TreeStart ==
    /\ r_pc = "idle"
    /\ \E args \in TreeArgs :
        /\ r_args' = args
        /\ r_stack' = <<Frame(args.prefix,
                              TreeListing(args.prefix, args.max_keys,
                                          args.max_pages))>>
        /\ r_listings' = <<KwPrefix(args.prefix)>>
    /\ r_pc' = "running"
    /\ UNCHANGED <<s3_bucket, r_loop, r_result>>

\* the outermost call: its listing raises a ClientError, which
\* list_objects_with_metadata raises again and nothing catches
TreeStartError ==
    /\ r_pc = "idle"
    /\ \E args \in TreeArgs :
        /\ r_args' = args
        /\ r_listings' = <<KwPrefix(args.prefix)>>
    /\ r_pc' = "raised"
    /\ UNCHANGED <<s3_bucket, r_stack, r_loop, r_result>>

\* the innermost call takes the next common prefix and calls itself with
\* it; the listing of the new call returns
TreeDescend ==
    /\ r_pc = "running"
    /\ Len(r_stack) < MaxDepth
    /\ LET top == r_stack[Len(r_stack)]
       IN  /\ top.pending # <<>>
           /\ LET prefix_key == Head(top.pending)
              IN  /\ r_stack' = Append(r_stack,
                        Frame(Some(prefix_key),
                              TreeListing(Some(prefix_key), r_args.max_keys,
                                          r_args.max_pages)))
                  /\ r_listings' = Append(r_listings, prefix_key)
    /\ UNCHANGED <<s3_bucket, r_pc, r_args, r_loop, r_result>>

\* the same, the listing of the new call raising a ClientError: every call
\* in progress is left by the exception
TreeDescendError ==
    /\ r_pc = "running"
    /\ Len(r_stack) < MaxDepth
    /\ LET top == r_stack[Len(r_stack)]
       IN  /\ top.pending # <<>>
           /\ r_listings' = Append(r_listings, Head(top.pending))
    /\ r_pc' = "raised"
    /\ UNCHANGED <<s3_bucket, r_args, r_stack, r_loop, r_result>>

\* the innermost call has no common prefix left: `return
\* directory_structure`, which the caller stores under the prefix
TreeReturn ==
    /\ r_pc = "running"
    /\ LET depth == Len(r_stack)
           top == r_stack[depth]
           tree == DirectoryStructure(top.files, top.directories)
       IN  /\ top.pending = <<>>
           /\ IF depth = 1
              THEN /\ r_result' = tree
                   /\ r_stack' = <<>>
                   /\ r_pc' = "done"
              ELSE LET caller == r_stack[depth - 1]
                       after == [caller EXCEPT
                                   !.pending = Tail(@),
                                   !.directories =
                                       DictSet(@, Head(caller.pending), tree)]
                   IN  /\ r_stack' = [SubSeq(r_stack, 1, depth - 1)
                                        EXCEPT ![depth - 1] = after]
                       /\ UNCHANGED <<r_pc, r_result>>
    /\ UNCHANGED <<s3_bucket, r_args, r_listings, r_loop>>

NextTree ==
    \/ TreeStart /\ UNCHANGED outsideTree
    \/ TreeStartError /\ UNCHANGED outsideTree
    \/ TreeDescend /\ UNCHANGED outsideTree
    \/ TreeDescendError /\ UNCHANGED outsideTree
    \/ TreeReturn /\ UNCHANGED outsideTree

\* the interpreter runs on: a call that can recurse or return does
TreeFairness ==
    /\ WF_vars(TreeDescend /\ UNCHANGED outsideTree)
    /\ WF_vars(TreeReturn /\ UNCHANGED outsideTree)

----------------------------------------------------------------------------
(* weather.py: make_nws_request, get_alerts, get_forecast                  *)

\* JSON values, as response.json() returns them
JNull == [t |-> "null"]
JNum(n) == [t |-> "number", v |-> n]
JStr(str) == [t |-> "string", v |-> str]
JArr(items) == [t |-> "array", v |-> items]
JObj(fields) == [t |-> "object", v |-> fields]

\* the empty JSON object
NoFields == <<>>

\* Python's truth value of a JSON value
Truthy(j) ==
    CASE j.t = "null" -> FALSE
      [] j.t = "number" -> j.v # 0
      [] j.t = "string" -> j.v # ""
      [] j.t = "array" -> j.v # <<>>
      [] j.t = "object" -> DOMAIN j.v # {}

\* the outcome of a Python expression: a value, or the exception it raises
Ok(value) == [ok |-> TRUE, value |-> value]
Exc(type) == [ok |-> FALSE, value |-> type]

\* `key in j` for a string key: a key of a dict, an element of a list, a
\* substring of a string, and a TypeError on a number
Contains(key, j) ==
    CASE j.t = "object" -> Ok(key \in DOMAIN j.v)
      [] j.t = "array" -> Ok(\E i \in 1..Len(j.v) : j.v[i] = JStr(key))
      [] j.t = "string" -> Ok(j.v = key)
      [] OTHER -> Exc("TypeError")

\* `j[key]` for a string key
Subscript(j, key) ==
    IF j.t = "object"
    THEN IF key \in DOMAIN j.v THEN Ok(j.v[key]) ELSE Exc("KeyError")
    ELSE Exc("TypeError")

\* what make_nws_request's HTTP call may do: fail in transport (timeouts and
\* malformed URLs included), answer with an error status, answer with a body
\* that is not JSON, or answer with a JSON body
HttpFailures == {"transport_error", "http_error", "invalid_json"}

HttpAnswer(status, body) == [status |-> status, body |-> body]

\* MakeNwsRequest without `response.raise_for_status()`
MakeNwsRequestAnyStatus(answer) ==
    IF answer.status \in {"ok", "http_error"} THEN answer.body ELSE JNull

\* make_nws_request: the parsed body, or None (JNull here) on any exception
MakeNwsRequest(answer) ==
    IF answer.status = "ok" THEN answer.body ELSE JNull

\* how a tool call ends
ReturnStr(text) == [outcome |-> "returned", shape |-> "str", value |-> text]
ReturnDict(shape, value) ==
    [outcome |-> "returned", shape |-> shape, value |-> value]
Raised(type) == [outcome |-> "raised", shape |-> type, value |-> <<>>]

\* the fixed messages of the tools; a text is a sequence of pieces
UnableAlerts == <<"Unable to fetch alerts or no alerts found.">>
NoAlerts == <<"No active alerts for this state.">>
UnablePoints == <<"Unable to fetch forecast data for this location.">>
UnableForecast == <<"Unable to fetch detailed forecast.">>
NoContent == <<"No content found for the specified file title.">>
NoResources == <<"No resources found for the specified syllabus.">>

\* format_alert(feature): `feature["properties"]`, then `props.get(...)`
FormatAlert(feature) ==
    LET props == Subscript(feature, "properties")
    IN  IF ~props.ok THEN props
        ELSE IF props.value.t # "object" THEN Exc("AttributeError")
        ELSE Ok("alert")

\* the elements a `for` loop over j visits, or the TypeError of a value that
\* is not iterable; a dict yields its keys, a string its characters
Iterate(j) ==
    CASE j.t = "array" -> Ok(j.v)
      [] j.t = "object" ->
            LET keys == DOMAIN j.v
            IN  Ok([i \in 1..Cardinality(keys) |-> JStr("key")])
      [] j.t = "string" -> Ok(<<JStr("c")>>)
      [] OTHER -> Exc("TypeError")

\* the first exception among the outcomes of a sequence, or Ok of them all
FirstFailure(outcomes) ==
    LET failed == {i \in 1..Len(outcomes) : ~outcomes[i].ok}
    IN  IF failed = {} THEN Ok([i \in 1..Len(outcomes) |-> outcomes[i].value])
        ELSE outcomes[CHOOSE i \in failed : \A j \in failed : i <= j]

\* "\n---\n".join(parts): the parts with the separator between them
RECURSIVE Join(_, _)
Join(parts, sep) ==
    IF parts = <<>> THEN <<>>
    ELSE IF Len(parts) = 1 THEN <<parts[1]>>
    ELSE <<parts[1], sep>> \o Join(Tail(parts), sep)

\* get_alerts, given what make_nws_request returned
AlertsResult(data) ==
    IF ~Truthy(data) THEN ReturnStr(UnableAlerts)
    ELSE LET has == Contains("features", data)
         IN  IF ~has.ok THEN Raised(has.value)
             ELSE IF ~has.value THEN ReturnStr(UnableAlerts)
             ELSE LET features == Subscript(data, "features")
                  IN  IF ~features.ok THEN Raised(features.value)
                      ELSE IF ~Truthy(features.value) THEN ReturnStr(NoAlerts)
                      ELSE LET each == Iterate(features.value)
                           IN  IF ~each.ok THEN Raised(each.value)
                               ELSE LET alerts == FirstFailure(
                                            [i \in 1..Len(each.value) |->
                                                FormatAlert(each.value[i])])
                                    IN  IF ~alerts.ok THEN Raised(alerts.value)
                                        ELSE ReturnStr(Join(alerts.value, "\n---\n"))

\* the number of periods get_forecast shows: `periods[:5]`
ShownPeriods == 5

\* the fields get_forecast reads from a period
PeriodFields ==
    {"name", "temperature", "temperatureUnit", "windSpeed", "windDirection",
     "detailedForecast"}

\* the f-string of one period
FormatPeriod(period) ==
    IF period.t # "object" THEN Exc("TypeError")
    ELSE IF ~(PeriodFields \subseteq DOMAIN period.v) THEN Exc("KeyError")
    ELSE Ok("forecast")

\* `periods[:5]` and the loop over it
ShownOf(periods) ==
    CASE periods.t = "array" -> Ok(Take(periods.v, ShownPeriods))
      [] periods.t = "string" -> Ok(IF periods.v = "" THEN <<>> ELSE <<JStr("c")>>)
      [] OTHER -> Exc("TypeError")

\* `j["properties"][key]`
Property(j, key) ==
    LET props == Subscript(j, "properties")
    IN  IF ~props.ok THEN props ELSE Subscript(props.value, key)

\* The second request of get_forecast: a forecast URL that is no string makes
\* the HTTP call raise inside make_nws_request, which then returns None.
ForecastData(forecast_url, answer) ==
    IF forecast_url.t # "string" THEN JNull ELSE MakeNwsRequest(answer)

\* get_forecast, given the answers to its two requests
ForecastResult(points_answer, forecast_answer) ==
    LET points_data == MakeNwsRequest(points_answer)
    IN  IF ~Truthy(points_data) THEN ReturnStr(UnablePoints)
        ELSE LET forecast_url == Property(points_data, "forecast")
             IN  IF ~forecast_url.ok THEN Raised(forecast_url.value)
                 ELSE LET forecast_data == ForecastData(forecast_url.value, forecast_answer)
                      IN  IF ~Truthy(forecast_data) THEN ReturnStr(UnableForecast)
                          ELSE LET periods == Property(forecast_data, "periods")
                               IN  IF ~periods.ok THEN Raised(periods.value)
                                   ELSE LET shown == ShownOf(periods.value)
                                        IN  IF ~shown.ok THEN Raised(shown.value)
                                            ELSE LET forecasts == FirstFailure(
                                                        [i \in 1..Len(shown.value) |->
                                                            FormatPeriod(shown.value[i])])
                                                 IN  IF ~forecasts.ok THEN Raised(forecasts.value)
                                                     ELSE ReturnStr(Join(forecasts.value, "\n---\n"))

----------------------------------------------------------------------------
(* utils.py: sanitize_filename, get_file_extension, the text extractors,   *)
(* get_text_from_file_by_title, get_titles_resources_by_silabus            *)

\* str.lower() of one character
Lower(c) ==
    CASE c = "S" -> "s" [] c = "P" -> "p" [] c = "D" -> "d" [] c = "F" -> "f"
      [] c = "O" -> "o" [] c = "C" -> "c" [] c = "É" -> "é"
      [] c = "T" -> "t" [] c = "M" -> "m" [] c = "E" -> "e"
      [] OTHER -> c

\* unicodedata.normalize('NFKD', c).encode('ASCII', 'ignore') of one
\* character: the base letter of an accented one, nothing for a character
\* with no ASCII part, and the letters of a compatibility character such as
\* the trade mark sign, written "U+2122" here
AsciiOf(c) ==
    CASE c = "é" -> <<"e">> [] c = "É" -> <<"E">> [] c = "€" -> <<>>
      [] c = "U+2122" -> <<"T", "M">>
      [] OTHER -> <<c>>

\* re.sub(r"[., ]", "_", ...) of one character
Underscore(c) == IF c \in {".", ",", " "} THEN "_" ELSE c

\* sanitize_filename(filename): lower, NFKD to ASCII, then the substitution
sanitize_filename(filename) ==
    LET lowered == [i \in 1..Len(filename) |-> Lower(filename[i])]
        ascii == Concat([i \in 1..Len(lowered) |-> AsciiOf(lowered[i])])
    IN  [i \in 1..Len(ascii) |-> Underscore(ascii[i])]

\* the index of the last occurrence of c in s, 0 when there is none
LastIndex(s, c) ==
    LET at == {i \in 1..Len(s) : s[i] = c}
    IN  IF at = {} THEN 0 ELSE CHOOSE i \in at : \A j \in at : j <= i

\* os.path.splitext(path)[1]: from the last dot of the last path component,
\* unless only dots precede it there
SplitExt(path) ==
    LET sepIndex == LastIndex(path, "/")
        dotIndex == LastIndex(path, ".")
    IN  IF dotIndex > sepIndex
           /\ \E i \in (sepIndex + 1)..(dotIndex - 1) : path[i] # "."
        THEN SubSeq(path, dotIndex, Len(path))
        ELSE <<>>

\* get_file_extension without `.lower()`
get_file_extension_as_written(file_path) ==
    SelectSeq(SplitExt(file_path), LAMBDA c : c # ".")

\* get_file_extension(file_path): splitext(...)[1].lower().replace(".", "")
get_file_extension(file_path) ==
    LET ext == SplitExt(file_path)
    IN  SelectSeq([i \in 1..Len(ext) |-> Lower(ext[i])], LAMBDA c : c # ".")

S3_PATH == <<"SOFIA_FILE/PLANIFICACION/AV_Recursos">>

\* object_key = f"{S3_PATH}/{sanitize_filename(title)}"
ObjectKeyOf(title) == S3_PATH \o <<"/">> \o sanitize_filename(title)

\* the content of a stored file: a PDF and the text of its pages, a DOCX and
\* the text of its paragraphs, or bytes that are neither
Pdf(pages) == [format |-> "pdf", parts |-> pages]
Docx(paragraphs) == [format |-> "docx", parts |-> paragraphs]
Garbage == [format |-> "garbage", parts |-> <<>>]

\* extract_text_from_pdf_bytes: each page's text followed by "\n"; the
\* reader's exception is raised again
extract_text_from_pdf_bytes(body) ==
    IF body.format # "pdf" THEN Exc("PdfReadError")
    ELSE Ok(Concat([i \in 1..Len(body.parts) |->
                      IF body.parts[i] = "" THEN <<"\n">>
                      ELSE <<body.parts[i], "\n">>]))

\* str.strip() leaves something
NotBlank(text) == text \notin {"", " "}

\* extract_text_from_docx_bytes: the paragraphs that are not blank, joined
\* by "\n"
extract_text_from_docx_bytes(body) ==
    IF body.format # "docx" THEN Exc("PackageNotFoundError")
    ELSE Ok(Join(SelectSeq(body.parts, NotBlank), "\n"))

\* what s3_helper.get_object may answer: a ClientError, or the stored body
GetObjectAnswer(error, body) == [error |-> error, body |-> body]

\* get_text_from_file_by_title: "" (the empty text) for a failed fetch, a
\* failed extraction and an unsupported type
get_text_from_file_by_title(title, answer) ==
    LET file_type == get_file_extension(title)
        extracted ==
            IF file_type = <<"p", "d", "f">>
            THEN extract_text_from_pdf_bytes(answer.body)
            ELSE IF file_type = <<"d", "o", "c", "x">> \/ file_type = <<"d", "o", "c">>
            THEN extract_text_from_docx_bytes(answer.body)
            ELSE Ok(<<>>)
    IN  IF answer.error # None THEN <<>>
        ELSE IF ~extracted.ok THEN <<>>
        ELSE extracted.value

\* the tool get_text_from_file
TextFromFileResult(title, answer) ==
    LET text == get_text_from_file_by_title(title, answer)
    IN  IF text = <<>> THEN ReturnDict("dict_str", NoContent)
        ELSE ReturnDict("dict_str", text)

\* the most resources a syllabus item lists
MaxResources == 2

\* an entry of a syllabus item's `resources` with no "resource_id" key
Malformed == "malformed"

\* what library_table_helper.get_item may answer: a ClientError, no item, an
\* item without `resources`, or an item with the list
LibraryAnswer(error, item, resources) ==
    [error |-> error, item |-> item, resources |-> resources]

\* get_titles_resources_by_silabus with `titles.insert(0, title)`
get_titles_resources_by_silabus_prepending(library, answers) ==
    IF library.error # None \/ library.item # "resources" THEN <<>>
    ELSE IF \E i \in 1..Len(library.resources) : library.resources[i] = Malformed
    THEN <<>>
    ELSE LET n == Len(library.resources)
             titles == [i \in 1..n |-> TitleOf(answers[n + 1 - i])]
         IN  SelectSeq(titles, LAMBDA title : title # None /\ title # "")

\* get_titles_resources_by_silabus with a title lookup whose exception is
\* not caught: one failed lookup ends the loop in the outer `except`
get_titles_resources_by_silabus_uncaught(library, answers) ==
    IF \E i \in 1..Len(answers) : answers[i].error # None THEN <<>>
    ELSE IF library.error # None \/ library.item # "resources" THEN <<>>
    ELSE IF \E i \in 1..Len(library.resources) : library.resources[i] = Malformed
    THEN <<>>
    ELSE LET titles == [i \in 1..Len(library.resources) |-> TitleOf(answers[i])]
         IN  SelectSeq(titles, LAMBDA title : title # None /\ title # "")

\* get_titles_resources_by_silabus: `answers[i]` is what get_item answers for
\* the i-th resource; any exception gives the empty list, and `if title`
\* leaves out a title that is None or empty
get_titles_resources_by_silabus(library, answers) ==
    IF library.error # None \/ library.item # "resources" THEN <<>>
    ELSE IF \E i \in 1..Len(library.resources) : library.resources[i] = Malformed
    THEN <<>>
    ELSE LET titles == [i \in 1..Len(library.resources) |-> TitleOf(answers[i])]
         IN  SelectSeq(titles, LAMBDA title : title # None /\ title # "")

\* ResourcesResult without `if not titles`
ResourcesResultAlwaysList(library, answers) ==
    ReturnDict("dict_list", get_titles_resources_by_silabus(library, answers))

\* the tool get_resources_by_syllabus
ResourcesResult(library, answers) ==
    LET titles == get_titles_resources_by_silabus(library, answers)
    IN  IF titles = <<>> THEN ReturnDict("dict_str", NoResources)
        ELSE ReturnDict("dict_list", titles)

----------------------------------------------------------------------------
(* weather.py: the four tools                                              *)

\* the most features of an alerts response, and periods of a forecast
MaxFeatures == 2
MaxPeriods == 6

GoodFeature == JObj([properties |-> JObj([event |-> JStr("Flood Warning")])])

Features ==
    {GoodFeature, JObj([properties |-> JObj(NoFields)]),
     JObj([id |-> JStr("x")]), JObj([properties |-> JNull]), JNull}

FeaturesValues ==
    {JNull, JNum(3), JStr("x"), JObj([a |-> JNull])}
    \cup {JArr(fs) : fs \in UNION {[1..n -> Features] : n \in 0..MaxFeatures}}

AlertsBodies ==
    {JNull, JNum(0), JNum(7), JStr(""), JStr("features"), JStr("error"),
     JArr(<<>>), JArr(<<JStr("features")>>), JObj(NoFields),
     JObj([title |-> JStr("Not Found")]), JObj([type |-> JStr("FeatureCollection")])}
    \cup {JObj([features |-> f]) : f \in FeaturesValues}

ForecastUrl == JStr("https://api.weather.gov/gridpoints/TOP/31,80/forecast")

PointsBodies ==
    {JNull, JNum(7), JStr("error"), JArr(<<JNum(7)>>), JObj(NoFields),
     JObj([title |-> JStr("Not Found")]),
     JObj([properties |-> JNull]), JObj([properties |-> JObj(NoFields)]),
     JObj([properties |-> JObj([forecast |-> JNull])]),
     JObj([properties |-> JObj([forecast |-> ForecastUrl])])}

GoodPeriod ==
    JObj([name |-> JStr("Tonight"), temperature |-> JNum(50),
          temperatureUnit |-> JStr("F"), windSpeed |-> JStr("5 mph"),
          windDirection |-> JStr("N"), detailedForecast |-> JStr("Clear")])

BadPeriods == {JNull, JObj([name |-> JStr("Tonight")])}

\* lists of periods with at most one that get_forecast cannot format
PeriodLists ==
    {[i \in 1..n |-> IF i = at THEN bad ELSE GoodPeriod] :
        n \in 0..MaxPeriods, at \in 0..MaxPeriods, bad \in BadPeriods}

ForecastBodies ==
    {JNull, JObj(NoFields), JObj([properties |-> JObj(NoFields)])}
    \cup {JObj([properties |-> JObj([periods |-> p])]) :
            p \in {JNull, JNum(7), JStr(""), JStr("x"), JObj(NoFields)}
                  \cup {JArr(ps) : ps \in PeriodLists}}

\* the body of an error response of the API
ProblemDetail == JObj([title |-> JStr("Not Found")])

HttpAnswers(bodies) ==
    {HttpAnswer(status, JNull) : status \in HttpFailures}
    \cup {HttpAnswer("http_error", ProblemDetail)}
    \cup {HttpAnswer("ok", body) : body \in bodies}

States == {"CA", "NY"}

Titles ==
    {<<"S", ".", "P", "D", "F">>, <<"s", ".", "p", "d", "f">>,
     <<"S", ".", "P", "d", "f">>, <<"é", ".", "p", "d", "f">>,
     <<"a", " ", "b", ".", "p", "d", "f">>,
     <<"s", ".", "t", ".", "p", "d", "f">>,
     <<"s", ".", "d", "o", "c", "x">>, <<"s", ".", "D", "O", "C">>,
     <<"s", ".", "x", "y", "z">>, <<"s">>, <<".", "p", "d", "f">>,
     <<"d", ".", "p", "d", "f", "/", "s">>}

Bodies ==
    {Pdf(<<>>), Pdf(<<"">>), Pdf(<<"x">>), Pdf(<<"x", "y">>),
     Docx(<<>>), Docx(<<" ">>), Docx(<<"x">>), Docx(<<"x", " ", "y">>),
     Garbage}

GetObjectAnswers ==
    {GetObjectAnswer(error, Garbage) : error \in {"NoSuchKey", "AccessDenied"}}
    \cup {GetObjectAnswer(None, body) : body \in Bodies}

SyllabusIds == {"SIL-001", "SIL-002"}

LibraryAnswers ==
    {LibraryAnswer(Throttled, NoItem, <<>>), LibraryAnswer(None, NoItem, <<>>),
     LibraryAnswer(None, "no_resources", <<>>)}
    \cup {LibraryAnswer(None, "resources", rs) :
            rs \in UNION {[1..n -> PKs \cup {Malformed}] : n \in 0..MaxResources}}

\* what files_table_helper.get_item may answer for one resource
TitleAnswers ==
    {[error |-> Throttled, result |-> None]}
    \cup {[error |-> None, result |-> r] : r \in {None, NoAttr, ""} \cup Values}

ToolCall(tool, input, answers, result) ==
    [tool |-> tool, input |-> input, answers |-> answers, result |-> result]

\* no call yet.  The tools keep no state between calls, so every call is
\* taken from here.
ToolsIdle == tool_last = ToolCall(None, <<>>, <<>>, ReturnStr(<<>>))

\* the tool get_alerts(state)
GetAlerts ==
    /\ ToolsIdle
    /\ \E state \in States, answer \in HttpAnswers(AlertsBodies) :
        tool_last' = ToolCall("get_alerts", state, <<answer>>,
                              AlertsResult(MakeNwsRequest(answer)))

\* whether get_forecast reaches its second request, and with a URL
SecondRequest(points_answer) ==
    LET points_data == MakeNwsRequest(points_answer)
    IN  Truthy(points_data) /\ Property(points_data, "forecast").ok

\* The answers to the second request: any, for a URL that is a string; a
\* failure inside the HTTP client for a value that is none.
SecondAnswers(points_answer) ==
    IF Property(MakeNwsRequest(points_answer), "forecast").value.t = "string"
    THEN HttpAnswers(ForecastBodies)
    ELSE {HttpAnswer("transport_error", JNull)}

\* the tool get_forecast(latitude, longitude), ending before its second
\* request
GetForecastOneRequest ==
    /\ ToolsIdle
    /\ \E points_answer \in HttpAnswers(PointsBodies) :
        /\ ~SecondRequest(points_answer)
        /\ tool_last' = ToolCall("get_forecast", <<47, 122>>, <<points_answer>>,
                                 ForecastResult(points_answer, points_answer))

\* the tool get_forecast(latitude, longitude), making both requests
GetForecastTwoRequests ==
    /\ ToolsIdle
    /\ \E points_answer \in HttpAnswers(PointsBodies) :
        /\ SecondRequest(points_answer)
        /\ \E forecast_answer \in SecondAnswers(points_answer) :
            tool_last' = ToolCall("get_forecast", <<47, 122>>,
                                  <<points_answer, forecast_answer>>,
                                  ForecastResult(points_answer, forecast_answer))

\* the tool get_text_from_file(title)
GetTextFromFile ==
    /\ ToolsIdle
    /\ \E title \in Titles, answer \in GetObjectAnswers :
        tool_last' = ToolCall("get_text_from_file", title, <<answer>>,
                              TextFromFileResult(title, answer))

\* the tool get_resources_by_syllabus(syllabus_id)
GetResourcesBySyllabus ==
    /\ ToolsIdle
    /\ \E syllabus_id \in SyllabusIds, library \in LibraryAnswers :
        \E answers \in [1..Len(library.resources) -> TitleAnswers] :
            tool_last' = ToolCall("get_resources_by_syllabus", syllabus_id,
                                  <<library, answers>>,
                                  ResourcesResult(library, answers))

\* the longest title given to sanitize_filename
MaxTitleLen == 3

\* the characters of these titles: letters in both cases, accented letters,
\* the trade mark sign (NFKD: "TM"), a sign with no ASCII part, and the
\* characters the substitution replaces
TitleChars == {"S", "s", "É", "é", "U+2122", "€", ".", ",", " ", "_"}

SanitizeTitles == UNION {[1..n -> TitleChars] : n \in 0..MaxTitleLen}

\* sanitize_filename(title), and the object key get_text_from_file_by_title
\* builds from the title
SanitizeFilename ==
    /\ ToolsIdle
    /\ \E title \in SanitizeTitles :
        tool_last' = ToolCall("sanitize_filename", title,
                              <<ObjectKeyOf(title)>>,
                              ReturnStr(sanitize_filename(title)))

\* the same on the name the last call returned
SanitizeFilenameAgain ==
    /\ tool_last.tool = "sanitize_filename"
    /\ tool_last' = ToolCall("sanitize_filename_again", tool_last.result.value,
                             <<ObjectKeyOf(tool_last.result.value)>>,
                             ReturnStr(sanitize_filename(tool_last.result.value)))

NextSanitize ==
    \/ SanitizeFilename /\ UNCHANGED outsideTools
    \/ SanitizeFilenameAgain /\ UNCHANGED outsideTools

NextTools ==
    \/ GetAlerts /\ UNCHANGED outsideTools
    \/ GetForecastOneRequest /\ UNCHANGED outsideTools
    \/ GetForecastTwoRequests /\ UNCHANGED outsideTools
    \/ GetTextFromFile /\ UNCHANGED outsideTools
    \/ GetResourcesBySyllabus /\ UNCHANGED outsideTools

----------------------------------------------------------------------------
(* S3Helper.list_objects_advanced                                          *)

\* The `filters` argument: None, or a dict that may hold 'extension',
\* 'min_size' and 'max_size'.
Filters(isDict, extension, min_size, max_size) ==
    [isDict |-> isDict, extension |-> extension, min_size |-> min_size,
     max_size |-> max_size]

\* `if not filters`: None and the empty dict
NoFilters(filters) ==
    \/ ~filters.isDict
    \/ ~Given(filters.extension) /\ ~Given(filters.min_size)
       /\ ~Given(filters.max_size)

EndsWith(key, suffix) ==
    /\ Len(suffix) <= Len(key)
    /\ SubSeq(key, Len(key) - Len(suffix) + 1, Len(key)) = suffix

\* the body of _apply_object_filters(obj, filters)
apply_object_filters(obj, filters) ==
    LET lowered(str) == [i \in 1..Len(str) |-> Lower(str[i])]
    IN  /\ Given(filters.extension) =>
                EndsWith(lowered(obj.Key),
                         <<".">> \o lowered(Value(filters.extension)))
        /\ ~(Given(filters.min_size) /\ obj.Size < Value(filters.min_size))
        /\ ~(Given(filters.max_size) /\ obj.Size > Value(filters.max_size))

\* The names a method of S3Helper can call without `self.`: those bound at
\* module level.  _apply_object_filters is defined in the body of the class,
\* so it is not among them.
ModuleLevelNames ==
    {"boto3", "json", "logging", "ClientError", "io", "mimetypes", "Path",
     "logger", "S3Helper"}

\* the evaluation of the bare name in `_apply_object_filters(obj, filters)`
CallByName(name, obj, filters) ==
    IF name \in ModuleLevelNames THEN Ok(apply_object_filters(obj, filters))
    ELSE Exc("NameError")

\* what list_objects_advanced does once list_objects has returned
\* `all_objects`: the dict it returns, or the exception of the first call in
\* its loop that raises
AdvancedResult(all_objects, filters) ==
    IF NoFilters(filters)
    THEN Ok([objects |-> all_objects, total_count |-> Len(all_objects),
             original_count |-> Nothing])
    ELSE LET passed == [i \in 1..Len(all_objects) |->
                            CallByName("_apply_object_filters",
                                       all_objects[i], filters)]
             failed == {i \in 1..Len(passed) : ~passed[i].ok}
             filtered_objects ==
                SelectSeq(all_objects,
                          LAMBDA obj : CallByName("_apply_object_filters",
                                                  obj, filters).value)
         IN  IF failed # {} THEN Exc(passed[CHOOSE i \in failed : TRUE].value)
             ELSE Ok([objects |-> filtered_objects,
                      total_count |-> Len(filtered_objects),
                      original_count |-> Some(Len(all_objects))])

AdvancedArgs(prefix, delimiter, max_keys, max_pages, filters) ==
    [prefix |-> prefix, delimiter |-> delimiter, max_keys |-> max_keys,
     max_pages |-> max_pages, filters |-> filters]

FiltersArgs ==
    {Filters(FALSE, Nothing, Nothing, Nothing),
     Filters(TRUE, Nothing, Nothing, Nothing),
     Filters(TRUE, Nothing, Some(2), Nothing),
     Filters(TRUE, Nothing, Nothing, Some(2)),
     Filters(TRUE, Nothing, Some(2), Some(2)),
     Filters(TRUE, Some(<<"B">>), Nothing, Nothing)}

\* list_objects_advanced(prefix, delimiter, max_keys, max_pages, filters),
\* entering list_objects
ListObjectsAdvancedStart ==
    \E prefix \in PrefixArgs, delimiter \in DelimiterArgs,
       max_keys \in 1..MaxPageKeys, max_pages \in MaxPagesArgs,
       filters \in FiltersArgs :
        ListStart("list_objects_advanced",
                  AdvancedArgs(prefix, delimiter, max_keys, max_pages, filters))

\* One iteration of the loop of list_objects; after the iteration that ends
\* list_objects, the rest of list_objects_advanced.
ListObjectsAdvancedPage ==
    /\ l_pc = "paging"
    /\ l_op = "list_objects_advanced"
    /\ l_page_count < Len(CallPages)
    /\ LET page == CallPages[l_page_count + 1]
           count == l_page_count + 1
           objects == l_all_objects \o page.Contents
           leave == CapReached(l_args.max_pages, count) \/ count = Len(CallPages)
           out == AdvancedResult(objects, l_args.filters)
       IN  /\ l_page_count' = count
           /\ l_all_objects' = objects
           /\ l_pc' = IF ~leave THEN "paging"
                      ELSE IF out.ok THEN "done" ELSE out.value
           /\ l_result' = IF leave /\ out.ok THEN out.value ELSE l_result
    /\ UNCHANGED <<s3_bucket, l_op, l_args>>

ListObjectsAdvancedError == ListError("list_objects_advanced")

NextAdvanced ==
    \/ ListObjectsAdvancedStart /\ UNCHANGED outsideList
    \/ ListObjectsAdvancedPage /\ UNCHANGED outsideList
    \/ ListObjectsAdvancedError /\ UNCHANGED outsideList

----------------------------------------------------------------------------
(* DynamoDBHelper.transact_write_items                                     *)

\* The writes a caller hands to transact_write_items: an entry of put_items
\* (the item: its key and attribute), of delete_items (the key), and of
\* update_items (a dict with Key, UpdateExpression, its values, and possibly
\* a ConditionExpression).
PutWrite(key, value) ==
    [kind |-> "Put", key |-> key, value |-> value, condition |-> None]
DeleteWrite(key) ==
    [kind |-> "Delete", key |-> key, value |-> NoItem, condition |-> None]
UpdateWrite(key, value, condition) ==
    [kind |-> "Update", key |-> key, value |-> value, condition |-> condition]

\* The entry of TransactItems built for one write: a Put carries TableName
\* and Item, a Delete TableName and Key, an Update TableName, Key,
\* UpdateExpression and ExpressionAttributeValues, and nothing else of the
\* caller's dict.
TransactItem(write) == [write EXCEPT !.condition = None]

\* transact_items: the puts, then the deletes, then the updates
TransactItems(put_items, delete_items, update_items) ==
    LET writes == put_items \o delete_items \o update_items
    IN  [i \in 1..Len(writes) |-> TransactItem(writes[i])]

\* TransactRequests with one request per entry of transact_items
TransactRequestsOneByOne(transact_items) ==
    [i \in 1..Len(transact_items) |-> <<transact_items[i]>>]

\* the requests the wrapper sends: one, with the whole of transact_items
TransactRequests(transact_items) == <<transact_items>>

TransactionCanceled == "TransactionCanceledException"

\* The backend's verdict on one TransactWriteItems request: a fault of its
\* own, a request that is empty, names a key outside the schema or names a
\* key twice, a condition that does not hold, or None when it commits.
TransactError(items, transact_items, fault) ==
    IF fault # None THEN fault
    ELSE IF transact_items = <<>> THEN ValidationError
    ELSE IF \E i \in 1..Len(transact_items) : ~KeyValid(transact_items[i].key)
    THEN ValidationError
    ELSE IF \E i, j \in 1..Len(transact_items) :
                i # j /\ transact_items[i].key = transact_items[j].key
    THEN ValidationError
    ELSE IF \E i \in 1..Len(transact_items) :
                ~ConditionHolds(items, transact_items[i].key,
                                transact_items[i].condition)
    THEN TransactionCanceled
    ELSE None

RECURSIVE ApplyWrites(_, _)
\* the table after the writes of a committed request
ApplyWrites(items, transact_items) ==
    IF transact_items = <<>> THEN items
    ELSE ApplyWrites([items EXCEPT ![Head(transact_items).key] =
                                        Head(transact_items).value],
                     Tail(transact_items))

RECURSIVE SendRequests(_, _, _)
\* The backend serving requests in order, each one atomically, until one is
\* refused: the table it leaves, the error of the refused request and the
\* number of requests it received.
SendRequests(items, requests, fault) ==
    IF requests = <<>> THEN [items |-> items, error |-> None, received |-> 0]
    ELSE LET error == TransactError(items, Head(requests), fault)
         IN  IF error # None
             THEN [items |-> items, error |-> error, received |-> 1]
             ELSE LET rest == SendRequests(ApplyWrites(items, Head(requests)),
                                           Tail(requests), fault)
                  IN  [rest EXCEPT !.received = @ + 1]

TransactCall(put_items, delete_items, update_items, requests, fault, error) ==
    [op |-> "transact_write_items", put_items |-> put_items,
     delete_items |-> delete_items, update_items |-> update_items,
     requests |-> requests, fault |-> fault, error |-> error]

\* the keys of the writes of one call
WriteKeys == {<<"p1", None>>, <<"p2", None>>, <<"p1", "s1">>, <<"p2", "s1">>}

\* the argument lists of one call: at most one entry each
PutItemsArgs == {<<>>} \cup {<<PutWrite(k, v)>> : k \in WriteKeys, v \in Values}
DeleteItemsArgs == {<<>>} \cup {<<DeleteWrite(k)>> : k \in WriteKeys}
UpdateItemsArgs ==
    {<<>>} \cup {<<UpdateWrite(k, "v2", c)>> :
                    k \in WriteKeys, c \in {None, "attribute_exists"}}

TransactFaults == {None, Throttled, TransactionCanceled}

\* transact_write_items(put_items, delete_items, update_items)
TransactWriteItems ==
    \E put_items \in PutItemsArgs, delete_items \in DeleteItemsArgs,
       update_items \in UpdateItemsArgs, fault \in TransactFaults :
        LET transact_items == TransactItems(put_items, delete_items, update_items)
            requests == TransactRequests(transact_items)
            served == SendRequests(t_items, requests, fault)
        IN  /\ t_items' = served.items
            /\ t_before' = t_items
            /\ t_last' = TransactCall(put_items, delete_items, update_items,
                                      SubSeq(requests, 1, served.received),
                                      fault, served.error)
            /\ UNCHANGED t_sk_name

----------------------------------------------------------------------------
(* S3Helper: the calls that send one request                               *)

\* the error codes of the S3 backend's ClientError
AccessDenied == "AccessDenied"
NoSuchKey == "NoSuchKey"
SlowDown == "SlowDown"
MalformedXML == "MalformedXML"
NoSuchBucketPolicy == "NoSuchBucketPolicy"

\* the backend's answer to one request: the code of the ClientError it
\* raises (None when it answers) and its response, Some(...) when it answers
S3Answer(error, response) == [error |-> error, response |-> response]

\* the object stored under a key
Stored(bucket, key) == {o \in bucket : o.Key = key}

\* the failures the backend may answer any request with
S3Faults == {S3Answer(AccessDenied, Nothing), S3Answer(SlowDown, Nothing)}

\* the answers to a request that reads the object under `key`
ReadAnswers(key) ==
    IF Stored(s3_bucket, key) # {}
    THEN {S3Answer(None, Some(o)) : o \in Stored(s3_bucket, key)} \cup S3Faults
    ELSE {S3Answer(NoSuchKey, Nothing), S3Answer(AccessDenied, Nothing)}

\* the answers to a request that writes
WriteAnswers == {S3Answer(None, Some("ok"))} \cup S3Faults

\* the bucket after an object of `size` was stored under `key`
Store(bucket, key, size) ==
    (bucket \ Stored(bucket, key)) \cup {Object(key, size)}

\* Attempt, sending the request once more after a ClientError
AttemptRetrying(request, answer) ==
    [requests |-> IF answer.error = None THEN <<request>>
                  ELSE <<request, request>>,
     error |-> answer.error]

\* The try/except around the one backend request of a wrapper: the request
\* is sent once, and `except ClientError as error` logs and raises `error`.
Attempt(request, answer) == [requests |-> <<request>>, error |-> answer.error]

\* what a call leaves behind for the claims to read
S3Call(op, args, attempt, answer, value) ==
    [op |-> op, args |-> args, requests |-> attempt.requests,
     answer |-> answer, error |-> attempt.error, value |-> value]

\* a dict of options: a set of <<name, value>> pairs, one per name
Names(dict) == {pair[1] : pair \in dict}

\* the options callers pass as extra_args
ExtraArgsDicts ==
    {{}, {<<"ACL", "private">>}, {<<"ContentType", "text/csv">>},
     {<<"ContentType", "">>},
     {<<"ACL", "private">>, <<"ContentType", "text/csv">>}}

ExtraArgs == {Nothing} \cup {Some(d) : d \in ExtraArgsDicts}

\* the sizes of the bodies callers store
BodySizes == {0, 2}

\* s3_path = f"s3://{self.bucket_name}/{object_key}"
S3Path(object_key) == <<"s3://", "bucket", "/">> \o object_key

\* get_object(object_key)
GetObject ==
    \E object_key \in ObjectKeys : \E answer \in ReadAnswers(object_key) :
        LET attempt == Attempt([Key |-> object_key], answer)
        IN  /\ o_last' = S3Call("get_object", object_key, attempt, answer,
                                IF answer.error = None
                                THEN Value(answer.response) ELSE None)
            /\ UNCHANGED s3_bucket

\* put_args: Bucket, Key and Body, updated with extra_args `if extra_args`
PutArgs(object_key, body, extra_args) ==
    [Key |-> object_key, Body |-> body,
     Extra |-> IF Given(extra_args) THEN Value(extra_args) ELSE {}]

\* put_object(object_key, body, extra_args)
PutObject ==
    \E object_key \in ObjectKeys, body \in BodySizes,
       extra_args \in {Nothing, Some({<<"ContentType", "text/csv">>})},
       answer \in WriteAnswers :
        LET attempt == Attempt(PutArgs(object_key, body, extra_args), answer)
        IN  /\ o_last' = S3Call("put_object", <<object_key, body, extra_args>>,
                                attempt, answer, S3Path(object_key))
            /\ s3_bucket' = IF answer.error = None
                            THEN Store(s3_bucket, object_key, body)
                            ELSE s3_bucket

\* delete_object(object_key): the backend answers a delete of a missing key
\* as it answers any other
DeleteObject ==
    \E object_key \in ObjectKeys, answer \in WriteAnswers :
        LET attempt == Attempt([Key |-> object_key], answer)
        IN  /\ o_last' = S3Call("delete_object", object_key, attempt, answer,
                                None)
            /\ s3_bucket' = IF answer.error = None
                            THEN s3_bucket \ Stored(s3_bucket, object_key)
                            ELSE s3_bucket

\* copy_object(source_key, destination_key) within the helper's bucket
CopyObject ==
    \E source_key \in ObjectKeys, destination_key \in ObjectKeys :
        \E answer \in ReadAnswers(source_key) :
            LET attempt == Attempt([CopySource |-> source_key,
                                    Key |-> destination_key], answer)
            IN  /\ o_last' = S3Call("copy_object",
                                    <<source_key, destination_key>>, attempt,
                                    answer, S3Path(destination_key))
                /\ s3_bucket' = IF answer.error = None
                                THEN Store(s3_bucket, destination_key,
                                           Value(answer.response).Size)
                                ELSE s3_bucket

\* the bucket policies the backend may hold
Policies == {"policy-a", "policy-b"}

\* the answers to get_bucket_policy
PolicyAnswers ==
    {S3Answer(None, Some(policy)) : policy \in Policies}
    \cup {S3Answer(NoSuchBucketPolicy, Nothing)} \cup S3Faults

\* get_bucket_policy(): `{}` for NoSuchBucketPolicy, every other ClientError
\* raised
GetBucketPolicy ==
    \E answer \in PolicyAnswers :
        LET attempt == Attempt("GetBucketPolicy", answer)
            missing == answer.error = NoSuchBucketPolicy
        IN  /\ o_last' = S3Call("get_bucket_policy", <<>>,
                                [attempt EXCEPT !.error =
                                    IF missing THEN None ELSE @],
                                answer,
                                IF missing THEN "{}"
                                ELSE IF answer.error = None
                                THEN Value(answer.response) ELSE None)
            /\ UNCHANGED s3_bucket

\* the most keys a caller hands to delete_objects
MaxDeleteKeys == 2

\* objects = [{'Key': key} for key in object_keys], sent as Delete.Objects
DeleteObjectsRequest(object_keys) == [Objects |-> object_keys]

\* The backend's response to a multi-object delete in which it refuses the
\* keys of `refused`: per key, in request order, an entry of Deleted or of
\* Errors.
DeleteObjectsResponse(objects, refused) ==
    [Deleted |-> SelectSeq(objects, LAMBDA key : key \notin refused),
     Errors |-> SelectSeq(objects, LAMBDA key : key \in refused)]

\* The answers to a multi-object delete: a request without keys is
\* malformed; any key may be refused.
DeleteObjectsAnswers(request) ==
    IF request.Objects = <<>> THEN {S3Answer(MalformedXML, Nothing)} \cup S3Faults
    ELSE {S3Answer(None, Some(DeleteObjectsResponse(request.Objects, refused))) :
            refused \in SUBSET Range(request.Objects)} \cup S3Faults

\* DeleteObjectsOutcome, raising when the response reports Errors
DeleteObjectsOutcomeRaisingOnErrors(answer) ==
    IF answer.error # None THEN [error |-> answer.error, value |-> None]
    ELSE IF Value(answer.response).Errors # <<>>
    THEN [error |-> "DeleteFailed", value |-> None]
    ELSE [error |-> None, value |-> Value(answer.response)]

\* delete_objects after its request: `errors` is only logged, the response
\* is returned as it came
DeleteObjectsOutcome(answer) ==
    IF answer.error # None THEN [error |-> answer.error, value |-> None]
    ELSE [error |-> None, value |-> Value(answer.response)]

DeleteKeysArgs == UNION {[1..n -> ObjectKeys] : n \in 0..MaxDeleteKeys}

\* delete_objects(object_keys)
DeleteObjects ==
    \E object_keys \in DeleteKeysArgs :
        LET request == DeleteObjectsRequest(object_keys)
        IN  \E answer \in DeleteObjectsAnswers(request) :
                LET attempt == Attempt(request, answer)
                    out == DeleteObjectsOutcome(answer)
                IN  /\ o_last' = S3Call("delete_objects", object_keys,
                                        [attempt EXCEPT !.error = out.error],
                                        answer, out.value)
                    /\ s3_bucket' =
                        IF answer.error = None
                        THEN {o \in s3_bucket :
                                o.Key \notin
                                    Range(Value(answer.response).Deleted)}
                        ELSE s3_bucket

\* the local paths callers upload
FilePaths ==
    {<<"r", ".", "p", "d", "f">>, <<"R", ".", "P", "D", "F">>,
     <<"d", ".", "p", "d", "f", "/", "n", ".", "t", "x", "t">>,
     <<"r", ".", "x", "y", "z">>, <<"r">>, <<".", "p", "d", "f">>}

\* mimetypes.guess_type(file_path)[0]: the type of the path's extension,
\* looked up as written and then in lower case; None when it is not known
GuessType(file_path) ==
    LET ext == SplitExt(file_path)
        lowered == [i \in 1..Len(ext) |-> Lower(ext[i])]
    IN  CASE lowered = <<".", "p", "d", "f">> -> "application/pdf"
          [] lowered = <<".", "t", "x", "t">> -> "text/plain"
          [] OTHER -> None

\* UploadExtraArgs, setting the guessed type whenever there is one
UploadExtraArgsGuessFirst(file_path, extra_args) ==
    LET given == IF Given(extra_args) THEN Value(extra_args) ELSE {}
        content_type == GuessType(file_path)
    IN  IF content_type # None
        THEN {pair \in given : pair[1] # "ContentType"}
                \cup {<<"ContentType", content_type>>}
        ELSE given

\* The ExtraArgs upload_file sends: the caller's dict ({} for None), with
\* ContentType set only `if 'ContentType' not in extra_args` and
\* `if content_type`.
UploadExtraArgs(file_path, extra_args) ==
    LET given == IF Given(extra_args) THEN Value(extra_args) ELSE {}
        content_type == GuessType(file_path)
    IN  IF "ContentType" \notin Names(given) /\ content_type # None
        THEN given \cup {<<"ContentType", content_type>>}
        ELSE given

\* upload_file(file_path, object_key, extra_args); the file holds one byte
UploadFile ==
    \E file_path \in FilePaths, object_key \in {<<"a">>, <<"b">>},
       extra_args \in ExtraArgs, answer \in WriteAnswers :
        LET request == [Filename |-> file_path, Key |-> object_key,
                        ExtraArgs |-> UploadExtraArgs(file_path, extra_args)]
            attempt == Attempt(request, answer)
        IN  /\ o_last' = S3Call("upload_file",
                                <<file_path, object_key, extra_args>>,
                                attempt, answer, S3Path(object_key))
            /\ s3_bucket' = IF answer.error = None
                            THEN Store(s3_bucket, object_key, 1)
                            ELSE s3_bucket

----------------------------------------------------------------------------
(* The storage calls, each one made on a helper at rest                    *)

\* no call made yet on either helper
StorageIdle == t_last.op = None /\ o_last.op = None

\* the tables a helper may be bound to: any item under the keys of its key
\* schema
InitTable ==
    /\ t_sk_name \in {None, "sk"}
    /\ t_items \in {items \in [TableKeys -> {NoItem, NoAttr} \cup Values] :
                        \A k \in TableKeys : ~KeyValid(k) => items[k] = NoItem}
    /\ t_before = t_items
    /\ t_last = Call(None, <<"p1", None>>, None, None, None, None)

\* The two helpers are separate objects with no state in common: a run
\* exercises the table helper on any table, or the bucket helper on any
\* bucket.
InitHelpers ==
    \/ InitTable /\ s3_bucket = {} /\ ObjectIdle
    \/ ItemIdle /\ InitBucket /\ ObjectIdle

NextStorage ==
    \/ StorageIdle /\ GetItem /\ UNCHANGED outsideItem
    \/ StorageIdle /\ PutItem /\ UNCHANGED outsideItem
    \/ StorageIdle /\ UpdateItem /\ UNCHANGED outsideItem
    \/ StorageIdle /\ DeleteItem /\ UNCHANGED outsideItem
    \/ StorageIdle /\ TransactWriteItems /\ UNCHANGED outsideItem
    \/ StorageIdle /\ ObjectExists /\ UNCHANGED outsideObject
    \/ StorageIdle /\ GetObject /\ UNCHANGED outsideObject
    \/ StorageIdle /\ PutObject /\ UNCHANGED outsideObject
    \/ StorageIdle /\ DeleteObject /\ UNCHANGED outsideObject
    \/ StorageIdle /\ DeleteObjects /\ UNCHANGED outsideObject
    \/ StorageIdle /\ CopyObject /\ UNCHANGED outsideObject
    \/ StorageIdle /\ UploadFile /\ UNCHANGED outsideObject
    \/ StorageIdle /\ GetBucketPolicy /\ UNCHANGED outsideObject

----------------------------------------------------------------------------
(* Tool calls in flight at the same time: get_text_from_file and           *)
(* get_resources_by_syllabus on the module-level helpers of utils.py       *)

\* the most calls in flight
MaxCalls == 2

\* The fields the helpers are constructed with: S3Helper(bucket_name=...),
\* DynamoDBHelper(table_name=..., pk_name=...).
ConstructedFields ==
    [bucket_name |-> "S3_RESOURCES_BUCKET",
     files_table |-> "DYNAMO_RESOURCES_TABLE", files_pk |-> "resource_id",
     hash_table |-> "DYNAMO_RESOURCES_HASH_TABLE", hash_pk |-> "file_hash",
     library_table |-> "DYNAMO_LIBRARY_TABLE", library_pk |-> "silabus_id"]

\* FieldsAfter with a get_item that rebinds a field of another helper
FieldsAfterRebinding(fields, method) ==
    IF method = "get_item" THEN [fields EXCEPT !.bucket_name = "scratch"]
    ELSE fields

\* The helpers' fields after a call of one of their methods: no method
\* assigns to an attribute of `self`.
FieldsAfter(fields, method) == fields

\* the titles and syllabus ids of the calls
ConcTitles ==
    {<<"s", ".", "p", "d", "f">>, <<"s", ".", "d", "o", "c", "x">>, <<"s">>}

\* what the bucket and the two tables may hold
Backends ==
    {[objects |-> [title \in ConcTitles |->
                     CASE title = <<"s", ".", "p", "d", "f">> ->
                            GetObjectAnswer(None, Pdf(<<"x">>))
                       [] title = <<"s", ".", "d", "o", "c", "x">> ->
                            GetObjectAnswer(None, Docx(<<"y">>))
                       [] OTHER -> GetObjectAnswer(None, Garbage)],
      library |-> [id \in SyllabusIds |->
                     IF id = "SIL-001"
                     THEN LibraryAnswer(None, "resources", <<"p1", "p2">>)
                     ELSE LibraryAnswer(None, NoItem, <<>>)],
      titles |-> [pk \in PKs |->
                     [error |-> None,
                      result |-> IF pk = "p1" THEN "v1" ELSE "v2"]]],
     [objects |-> [title \in ConcTitles |->
                     CASE title = <<"s", ".", "p", "d", "f">> ->
                            GetObjectAnswer("NoSuchKey", Garbage)
                       [] title = <<"s", ".", "d", "o", "c", "x">> ->
                            GetObjectAnswer(None, Garbage)
                       [] OTHER -> GetObjectAnswer(None, Pdf(<<"x">>))],
      library |-> [id \in SyllabusIds |->
                     IF id = "SIL-001"
                     THEN LibraryAnswer(None, "resources", <<"p2", "p1">>)
                     ELSE LibraryAnswer(None, "no_resources", <<>>)],
      titles |-> [pk \in PKs |->
                     [error |-> None,
                      result |-> IF pk = "p1" THEN NoAttr ELSE "v2"]]]}

\* the backend's answer to get_object(Bucket=bucket, Key=key)
BackendGetObject(backend, bucket, key) ==
    LET titled == {title \in ConcTitles : ObjectKeyOf(title) = key}
    IN  IF bucket # ConstructedFields.bucket_name \/ titled = {}
        THEN GetObjectAnswer("NoSuchKey", Garbage)
        ELSE backend.objects[CHOOSE title \in titled : TRUE]

\* the backend's answer to get_item on the library table
BackendGetLibrary(backend, table, pk_name, id) ==
    IF table = ConstructedFields.library_table
       /\ pk_name = ConstructedFields.library_pk
    THEN backend.library[id]
    ELSE LibraryAnswer(ValidationError, NoItem, <<>>)

\* the backend's answer to get_item on the resources table
BackendGetTitle(backend, table, pk_name, resource_id) ==
    IF table = ConstructedFields.files_table
       /\ pk_name = ConstructedFields.files_pk
    THEN backend.titles[resource_id]
    ELSE [error |-> ValidationError, result |-> None]

\* a call: its tool and input, its position, its locals (object_key;
\* resource_ids and titles) and its result; `overlapped` records that
\* another call took a step while this one was in flight
ConcCall(tool, input, pc, object_key, resource_ids, titles, result, overlapped) ==
    [tool |-> tool, input |-> input, pc |-> pc, object_key |-> object_key,
     resource_ids |-> resource_ids, titles |-> titles, result |-> result,
     overlapped |-> overlapped]

InFlight(call) == call.pc \notin {"idle", "done"}

\* the calls after call i took a step to `next`
Step(i, next) ==
    [j \in 1..MaxCalls |->
        IF j = i THEN next
        ELSE IF InFlight(conc_calls[j])
        THEN [conc_calls[j] EXCEPT !.overlapped = TRUE]
        ELSE conc_calls[j]]

InitConcurrent ==
    /\ conc_backend \in Backends
    /\ conc_fields = ConstructedFields
    /\ conc_calls = [i \in 1..MaxCalls |->
                        ConcCall(None, <<>>, "idle", <<>>, <<>>, <<>>,
                                 ReturnStr(<<>>), FALSE)]

\* get_text_from_file(title) up to its request: file_type and object_key
StartTextFromFile(i) ==
    /\ conc_calls[i].pc = "idle"
    /\ \E title \in ConcTitles :
        conc_calls' = Step(i, ConcCall("get_text_from_file", title,
                                       "get_object", ObjectKeyOf(title), <<>>,
                                       <<>>, ReturnStr(<<>>), FALSE))
    /\ UNCHANGED <<conc_backend, conc_fields>>

\* s3_helper.get_object(object_key=object_key), the extraction and the
\* return of the tool
FetchObject(i) ==
    /\ conc_calls[i].pc = "get_object"
    /\ LET call == conc_calls[i]
           answer == BackendGetObject(conc_backend, conc_fields.bucket_name,
                                      call.object_key)
       IN  conc_calls' = Step(i, [call EXCEPT
                                    !.pc = "done",
                                    !.result = TextFromFileResult(call.input,
                                                                  answer)])
    /\ conc_fields' = FieldsAfter(conc_fields, "get_object")
    /\ UNCHANGED conc_backend

\* get_resources_by_syllabus(syllabus_id) up to its first request
StartResourcesBySyllabus(i) ==
    /\ conc_calls[i].pc = "idle"
    /\ \E syllabus_id \in SyllabusIds :
        conc_calls' = Step(i, ConcCall("get_resources_by_syllabus",
                                       syllabus_id, "library", <<>>, <<>>,
                                       <<>>, ReturnStr(<<>>), FALSE))
    /\ UNCHANGED <<conc_backend, conc_fields>>

\* how get_resources_by_syllabus ends with the titles it collected
ResourcesReturn(titles) ==
    IF titles = <<>> THEN ReturnDict("dict_str", NoResources)
    ELSE ReturnDict("dict_list", titles)

\* library_table_helper.get_item(silabus_id) and the list of resource ids
FetchLibrary(i) ==
    /\ conc_calls[i].pc = "library"
    /\ LET call == conc_calls[i]
           library == BackendGetLibrary(conc_backend,
                                        conc_fields.library_table,
                                        conc_fields.library_pk, call.input)
           none == \/ library.error # None
                   \/ library.item # "resources"
                   \/ library.resources = <<>>
                   \/ \E k \in 1..Len(library.resources) :
                        library.resources[k] = Malformed
       IN  conc_calls' =
             Step(i, IF none
                     THEN [call EXCEPT !.pc = "done",
                                       !.result = ResourcesReturn(<<>>)]
                     ELSE [call EXCEPT !.pc = "titles",
                                       !.resource_ids = library.resources])
    /\ conc_fields' = FieldsAfter(conc_fields, "get_item")
    /\ UNCHANGED conc_backend

\* one iteration of `for resource_id in resource_ids`; the last one returns
FetchTitle(i) ==
    /\ conc_calls[i].pc = "titles"
    /\ LET call == conc_calls[i]
           resource_id == Head(call.resource_ids)
           title == TitleOf(BackendGetTitle(conc_backend,
                                            conc_fields.files_table,
                                            conc_fields.files_pk, resource_id))
           titles == IF title # None /\ title # ""
                     THEN Append(call.titles, title) ELSE call.titles
           rest == Tail(call.resource_ids)
       IN  conc_calls' =
             Step(i, IF rest = <<>>
                     THEN [call EXCEPT !.pc = "done", !.resource_ids = rest,
                                       !.titles = titles,
                                       !.result = ResourcesReturn(titles)]
                     ELSE [call EXCEPT !.resource_ids = rest,
                                       !.titles = titles])
    /\ conc_fields' = FieldsAfter(conc_fields, "get_item")
    /\ UNCHANGED conc_backend

NextConcurrent ==
    \/ \E i \in 1..MaxCalls : StartTextFromFile(i) /\ UNCHANGED outsideConcurrent
    \/ \E i \in 1..MaxCalls : FetchObject(i) /\ UNCHANGED outsideConcurrent
    \/ \E i \in 1..MaxCalls :
        StartResourcesBySyllabus(i) /\ UNCHANGED outsideConcurrent
    \/ \E i \in 1..MaxCalls : FetchLibrary(i) /\ UNCHANGED outsideConcurrent
    \/ \E i \in 1..MaxCalls : FetchTitle(i) /\ UNCHANGED outsideConcurrent

----------------------------------------------------------------------------
(* Specifications                                                          *)

\* the components at rest, with nothing stored
BatchRest == bg_table = {} /\ bg_stuck = {} /\ BatchGetIdle

QueryRest == q_index = <<>> /\ QueryIdle

ObjectRest == s3_bucket = {} /\ ObjectIdle

InitBatch ==
    /\ InitBatchTable /\ bg_stuck = {} /\ BatchGetIdle
    /\ QueryRest /\ ItemIdle /\ ObjectRest /\ ListIdle /\ ToolsIdle /\ TreeRest /\ ConcRest

SpecBatch == InitBatch /\ [][NextBatch]_vars

\* the table holds every key, or every key but the candidates
InitBatchUnbounded ==
    /\ bg_table \in {AllKeys, AllKeys \ MissingCandidates}
    /\ bg_stuck \in SUBSET FlakyKeys
    /\ BatchGetIdle
    /\ QueryRest /\ ItemIdle /\ ObjectRest /\ ListIdle /\ ToolsIdle /\ TreeRest /\ ConcRest

SpecBatchFair ==
    InitBatchUnbounded /\ [][NextBatchUnbounded]_vars /\ BatchFairness

InitQuery ==
    /\ InitQueryIndex /\ QueryIdle
    /\ BatchRest /\ ItemIdle /\ ObjectRest /\ ListIdle /\ ToolsIdle /\ TreeRest /\ ConcRest

SpecQuery == InitQuery /\ [][NextQuery]_vars

SpecTableRead == InitQuery /\ [][NextTableRead]_vars

InitItemSpec ==
    /\ InitItem
    /\ BatchRest /\ QueryRest /\ ObjectRest /\ ListIdle /\ ToolsIdle /\ TreeRest /\ ConcRest

SpecItem == InitItemSpec /\ [][NextItem]_vars

InitObject ==
    /\ InitBucket /\ ObjectIdle
    /\ ListIdle /\ BatchRest /\ QueryRest /\ ItemIdle /\ ToolsIdle /\ TreeRest /\ ConcRest

SpecObject == InitObject /\ [][NextObject]_vars

InitList ==
    /\ InitBucket /\ ListIdle
    /\ ObjectIdle /\ BatchRest /\ QueryRest /\ ItemIdle /\ ToolsIdle /\ TreeRest /\ ConcRest

SpecList == InitList /\ [][NextList]_vars

InitTools ==
    /\ ToolsIdle /\ TreeRest /\ ConcRest
    /\ BatchRest /\ QueryRest /\ ItemIdle /\ ObjectRest /\ ListIdle

SpecTools == InitTools /\ [][NextTools]_vars

SpecSanitize == InitTools /\ [][NextSanitize]_vars

InitStorage ==
    /\ InitHelpers
    /\ BatchRest /\ QueryRest /\ ListIdle /\ ToolsIdle /\ TreeRest /\ ConcRest

SpecStorage == InitStorage /\ [][NextStorage]_vars

SpecAdvanced == InitList /\ [][NextAdvanced]_vars

SpecListMetadata == InitList /\ [][NextListMetadata]_vars

SpecListDates == InitList /\ [][NextListDates]_vars

InitTree ==
    /\ InitTreeBucket /\ TreeIdle
    /\ ObjectIdle /\ ListIdle /\ BatchRest /\ QueryRest /\ ItemIdle
    /\ ToolsIdle /\ ConcRest

SpecTree == InitTree /\ [][NextTree]_vars

SpecTreeFair == InitTree /\ [][NextTree]_vars /\ TreeFairness

InitConcurrentSpec ==
    /\ InitConcurrent
    /\ BatchRest /\ QueryRest /\ ItemIdle /\ ObjectRest /\ ListIdle /\ ToolsIdle /\ TreeRest

SpecConcurrent == InitConcurrentSpec /\ [][NextConcurrent]_vars

----------------------------------------------------------------------------
(* Claims                                                                  *)

\* C1: batch_get_items called with more than BatchLimit keys, against a
\* backend that raises no error, issues at least ceil(N / BatchLimit)
\* requests and returns exactly the items the table holds for the N keys,
\* those of the keys at positions BatchLimit + 1 and later included.
C1_BatchGetReturnsEveryRequestedItem ==
    (bg_pc = "done" /\ Len(bg_arg) > BatchLimit) =>
        /\ Len(bg_requests) >= CeilDiv(Len(bg_arg), BatchLimit)
        /\ Range(bg_result) = {Item(k) : k \in Range(bg_arg) \cap bg_table}

\* C2: query_by_index and query_items_by_begins_pk_sk, against an index that
\* does not change during the call and is delivered in any number of pages,
\* return the concatenation of the pages in page order, which is every
\* matching item once, in index order; `limit` bounds each page.
C2_QueryReturnsEveryPageInOrder ==
    q_pc = "done" =>
        /\ q_result = Concat(q_pages)
        /\ q_result = SelectSeq(q_index, LAMBDA it : ~q_filter \/ it.pass)
        /\ \A i \in 1..Len(q_pages) : Len(q_pages[i]) <= q_limit

\* C2, witness: a call that returned more items than `limit`, from three or
\* more pages, one of them empty
C2_Witness ==
    /\ q_pc = "done"
    /\ q_op = "query_by_index"
    /\ Len(q_pages) >= 3
    /\ Len(q_result) > q_limit
    /\ \E i \in 1..Len(q_pages) : q_pages[i] = <<>>

\* C3: for a key under which the table holds no item, get_item returns None
\* and does not raise when the backend answers the request, and
\* get_title_from_resource_id returns None and does not raise whatever the
\* backend does.
C3_AbsentKeyGivesNone ==
    /\ (/\ t_last.op = "get_item"
        /\ t_last.fault = None
        /\ KeyValid(t_last.key)
        /\ t_before[t_last.key] = NoItem)
       => (t_last.error = None /\ t_last.result = None)
    /\ (/\ t_last.op = "get_title_from_resource_id"
        /\ t_before[t_last.key] = NoItem)
       => (t_last.error = None /\ t_last.result = None)

\* C3, witness: get_item for an absent key of a table that holds another item
C3_Witness ==
    /\ t_last.op = "get_item"
    /\ t_last.fault = None
    /\ KeyValid(t_last.key)
    /\ t_before[t_last.key] = NoItem
    /\ t_last.result = None
    /\ \E k \in TableKeys : t_items[k] # NoItem

WriteOps == {"put_item", "update_item", "delete_item"}

\* C4: a put_item, update_item or delete_item whose condition does not hold
\* when the backend applies it leaves the table as it was and raises, after
\* one request; the error is the backend's condition-failed error, and no
\* other failure carries that code.
C4_FailedConditionChangesNothing ==
    t_last.op \in WriteOps =>
        /\ (/\ t_last.condition # None
            /\ ~ConditionHolds(t_before, t_last.key, t_last.condition))
           => /\ t_items = t_before
              /\ t_last.error # None
              /\ t_last.requests = 1
              /\ (t_last.fault = None /\ KeyValid(t_last.key))
                 => t_last.error = ConditionFailed
        /\ t_last.error = ConditionFailed
           => /\ t_last.condition # None
              /\ ~ConditionHolds(t_before, t_last.key, t_last.condition)

\* C4, witness: an insert-if-absent over an existing item
C4_Witness ==
    /\ t_last.op = "put_item"
    /\ t_last.condition = "attribute_not_exists"
    /\ t_before[t_last.key] # NoItem
    /\ t_last.error = ConditionFailed
    /\ t_items = t_before

\* C5: object_exists returns True when head_object succeeds, returns False
\* exactly when the backend reports not-found, and raises every other error
\* unchanged.
C5_ObjectExistsFalseOnlyForNotFound ==
    o_last.op = "object_exists" =>
        /\ o_last.head = "ok" => (o_last.returned /\ o_last.value)
        /\ (o_last.returned /\ ~o_last.value) <=> o_last.head = NotFound
        /\ o_last.head \notin {"ok", NotFound}
           => (~o_last.returned /\ o_last.error = o_last.head)

\* C5, witness: a missing object whose head request is refused, not reported
\* missing
C5_Witness ==
    /\ o_last.op = "object_exists"
    /\ ~\E o \in s3_bucket : o.Key = o_last.key
    /\ o_last.head = "403"
    /\ ~o_last.returned
    /\ o_last.error = "403"

\* the Contents of the first n pages, concatenated
ContentsOf(pages, n) == Concat([i \in 1..n |-> pages[i].Contents])

\* C6: over a listing of P pages, list_objects with max_pages = None returns
\* the objects of all P pages in page order; with max_pages = k >= 1 it
\* consumes min(k, P) pages, never more than k, and returns the objects of
\* those pages.
C6_ListObjectsStopsAtTheCap ==
    (l_pc = "done" /\ l_op = "list_objects") =>
        LET P == Len(CallPages)
            k == Value(l_args.max_pages)
        IN  /\ ~Given(l_args.max_pages)
               => /\ l_page_count = P
                  /\ l_result = ContentsOf(CallPages, P)
            /\ (Given(l_args.max_pages) /\ k >= 1)
               => /\ l_page_count = Min(k, P)
                  /\ l_page_count <= k
                  /\ l_result = ContentsOf(CallPages, Min(k, P))

\* C6, witness: a listing cut short by the cap, after more than one page
C6_Witness ==
    /\ l_pc = "done"
    /\ l_op = "list_objects"
    /\ Given(l_args.max_pages)
    /\ Value(l_args.max_pages) >= 2
    /\ Value(l_args.max_pages) < Len(CallPages)
    /\ Len(l_result) < Cardinality(s3_bucket)
    /\ l_result # <<>>

\* what list_objects returns for the arguments of the running call
UnfilteredListing ==
    LET P == Len(CallPages)
        k == Value(l_args.max_pages)
    IN  ContentsOf(CallPages, IF Given(l_args.max_pages) /\ k >= 1
                              THEN Min(k, P) ELSE P)

\* C7: for min_size <= max_size, list_objects_by_size returns the objects of
\* the unfiltered list_objects result (same prefix and paging) whose Size is
\* in [min_size, max_size], both bounds included, in the same order; a bound
\* of None restricts nothing.
C7_BySizeKeepsTheClosedRange ==
    (/\ l_pc = "done"
     /\ l_op = "list_objects_by_size"
     /\ (Given(l_args.min_size) /\ Given(l_args.max_size))
        => Value(l_args.min_size) <= Value(l_args.max_size))
    => l_result =
        SelectSeq(UnfilteredListing,
                  LAMBDA obj :
                    /\ Given(l_args.min_size) => obj.Size >= Value(l_args.min_size)
                    /\ Given(l_args.max_size) => obj.Size <= Value(l_args.max_size))

\* C7, witness: a result that holds an object of size min_size and one of
\* size max_size, and leaves out an object of the listing
C7_Witness ==
    /\ l_pc = "done"
    /\ l_op = "list_objects_by_size"
    /\ Given(l_args.min_size)
    /\ Given(l_args.max_size)
    /\ Value(l_args.min_size) < Value(l_args.max_size)
    /\ \E i \in 1..Len(l_result) : l_result[i].Size = Value(l_args.min_size)
    /\ \E i \in 1..Len(l_result) : l_result[i].Size = Value(l_args.max_size)
    /\ Len(l_result) < Len(UnfilteredListing)

\* C8: whatever the external calls answer, each of the four tools returns a
\* string or a structured result; no exception leaves a tool function.
C8_ToolsNeverRaise == tool_last.result.outcome # "raised"

\* C9: when the HTTP request or the parsing of its response fails,
\* make_nws_request returns None, get_alerts returns its fixed message, and
\* get_forecast returns one fixed message for a failed points request and
\* another for a failed forecast request.
C9_FailedRequestGivesTheFixedMessage ==
    /\ \A i \in 1..Len(tool_last.answers) :
        (/\ tool_last.tool \in {"get_alerts", "get_forecast"}
         /\ tool_last.answers[i].status # "ok")
        => MakeNwsRequest(tool_last.answers[i]) = JNull
    /\ (tool_last.tool = "get_alerts" /\ tool_last.answers[1].status # "ok")
       => tool_last.result = ReturnStr(UnableAlerts)
    /\ (tool_last.tool = "get_forecast" /\ tool_last.answers[1].status # "ok")
       => tool_last.result = ReturnStr(UnablePoints)
    /\ (/\ tool_last.tool = "get_forecast"
        /\ Len(tool_last.answers) = 2
        /\ tool_last.answers[2].status # "ok")
       => tool_last.result = ReturnStr(UnableForecast)

\* C9, witness: get_forecast whose forecast request is answered with an
\* error status
C9_Witness ==
    /\ tool_last.tool = "get_forecast"
    /\ Len(tool_last.answers) = 2
    /\ tool_last.answers[1].status = "ok"
    /\ tool_last.answers[2] = HttpAnswer("http_error", ProblemDetail)
    /\ tool_last.result = ReturnStr(UnableForecast)

\* the titles whose extension is pdf in some letter case, and those whose
\* extension is none of pdf, docx, doc
PdfTitles ==
    {<<"S", ".", "P", "D", "F">>, <<"s", ".", "p", "d", "f">>,
     <<"S", ".", "P", "d", "f">>, <<"é", ".", "p", "d", "f">>,
     <<"a", " ", "b", ".", "p", "d", "f">>,
     <<"s", ".", "t", ".", "p", "d", "f">>}

UnsupportedTitles ==
    {<<"s", ".", "x", "y", "z">>, <<"s">>, <<".", "p", "d", "f">>,
     <<"d", ".", "p", "d", "f", "/", "s">>}

\* C10: get_text_from_file returns the no-content result, without raising,
\* for a title whose extension is none of pdf, docx, doc, whether or not the
\* object exists; for a title with the extension pdf in any letter case
\* whose object is a valid PDF with non-empty text, it returns that text.
C10_TextFromFileByExtension ==
    tool_last.tool = "get_text_from_file" =>
        LET answer == tool_last.answers[1]
        IN  /\ tool_last.input \in UnsupportedTitles
               => tool_last.result = ReturnDict("dict_str", NoContent)
            /\ (/\ tool_last.input \in PdfTitles
                /\ answer.error = None
                /\ answer.body.format = "pdf"
                /\ \E i \in 1..Len(answer.body.parts) : answer.body.parts[i] # "")
               => /\ tool_last.result.outcome = "returned"
                  /\ tool_last.result.shape = "dict_str"
                  /\ tool_last.result.value # NoContent
                  /\ tool_last.result.value =
                        extract_text_from_pdf_bytes(answer.body).value

\* C10, witness: "S.PDF" over a stored PDF of two pages
C10_Witness ==
    /\ tool_last.tool = "get_text_from_file"
    /\ tool_last.input = <<"S", ".", "P", "D", "F">>
    /\ tool_last.answers[1] = GetObjectAnswer(None, Pdf(<<"x", "y">>))
    /\ tool_last.result = ReturnDict("dict_str", <<"x", "\n", "y", "\n">>)

\* what files_table_helper.get_item answered with a title that counts: an
\* item whose resource_title is not empty
HasTitle(answer) == answer.error = None /\ answer.result \in Values

\* C11: get_resources_by_syllabus returns the no-resources message whenever
\* the syllabus item is absent or has no resources attribute; a result that
\* is a list is not empty, holds only titles of the referenced resources in
\* their order, and is given only when some referenced resource has a title.
C11_ResourcesOrTheFixedMessage ==
    tool_last.tool = "get_resources_by_syllabus" =>
        LET library == tool_last.answers[1]
            answers == tool_last.answers[2]
            titled == SelectSeq(answers, HasTitle)
        IN  /\ (library.error = None /\ library.item \in {NoItem, "no_resources"})
               => tool_last.result = ReturnDict("dict_str", NoResources)
            /\ tool_last.result.outcome = "returned"
            /\ tool_last.result.shape \in {"dict_str", "dict_list"}
            /\ tool_last.result.shape = "dict_str"
               => tool_last.result.value = NoResources
            /\ tool_last.result.shape = "dict_list"
               => /\ tool_last.result.value # <<>>
                  /\ library.item = "resources"
                  /\ \E i \in 1..Len(answers) : HasTitle(answers[i])
                  /\ tool_last.result.value =
                        [i \in 1..Len(titled) |-> titled[i].result]

\* C11, witness: a syllabus with two resources, the first without a title
\* and the second with one, gives the list of that one title.
C11_Witness ==
    /\ tool_last.tool = "get_resources_by_syllabus"
    /\ tool_last.answers[1] = LibraryAnswer(None, "resources", <<"p1", "p2">>)
    /\ tool_last.answers[2] = <<[error |-> None, result |-> NoAttr],
                                [error |-> None, result |-> "v2"]>>
    /\ tool_last.result = ReturnDict("dict_list", <<"v2">>)

\* the writes handed to the last transact_write_items call, in the order in
\* which the wrapper lists them
WritesOfCall == t_last.put_items \o t_last.delete_items \o t_last.update_items

\* C12: transact_write_items sends the given puts, deletes and updates in
\* exactly one request; when it returns, every write is applied to the
\* table, and when it raises, the table is as it was before the call, so no
\* state has only some of the writes applied.
C12_TransactionIsAllOrNothing ==
    t_last.op = "transact_write_items" =>
        LET writes == WritesOfCall
            written == {writes[i].key : i \in 1..Len(writes)}
        IN  /\ Len(t_last.requests) = 1
            /\ Len(t_last.requests[1]) = Len(writes)
            /\ \A i \in 1..Len(writes) :
                /\ t_last.requests[1][i].kind = writes[i].kind
                /\ t_last.requests[1][i].key = writes[i].key
                /\ t_last.requests[1][i].value = writes[i].value
            /\ t_last.error = None =>
                /\ \A i \in 1..Len(writes) :
                    t_items[writes[i].key] = writes[i].value
                /\ \A k \in TableKeys \ written : t_items[k] = t_before[k]
            /\ t_last.error # None => t_items = t_before

\* C12, witness: a delete and an update on the two keys of the table,
\* committed in one request, each of them changing the table.
C12_Witness ==
    /\ t_last.op = "transact_write_items"
    /\ Len(t_last.delete_items) = 1 /\ Len(t_last.update_items) = 1
    /\ t_last.put_items = <<>>
    /\ t_last.error = None
    /\ Len(t_last.requests) = 1
    /\ \A i \in 1..2 :
        t_before[WritesOfCall[i].key] # t_items[WritesOfCall[i].key]

\* the error with which the backend answered the request of the last call on
\* the table helper, None when it served the request
BackendErrorOfTableCall ==
    CASE t_last.op = "get_item" -> ReadError(t_last.key, t_last.fault)
      [] t_last.op \in WriteOps ->
            WriteError(t_before, t_last.key, t_last.condition, t_last.fault)
      [] t_last.op = "transact_write_items" ->
            TransactError(t_before, t_last.requests[1], t_last.fault)
      [] OTHER -> None

\* the calls on the bucket helper that send one request and raise every
\* error, and the one that turns one code into a return value
RaisingObjectOps ==
    {"get_object", "put_object", "delete_object", "delete_objects",
     "copy_object", "upload_file"}

\* C13: when the backend fails the request of a storage call with a
\* ClientError (object_exists answered 404 and get_bucket_policy answered
\* NoSuchBucketPolicy excepted), the call raises that error, has sent that
\* one request and no other, and has changed nothing.
C13_BackendErrorIsRaisedWithoutRetry ==
    /\ (t_last.op # None /\ BackendErrorOfTableCall # None)
       => /\ t_last.error = BackendErrorOfTableCall
          /\ t_last.op = "transact_write_items" => Len(t_last.requests) = 1
          /\ t_last.op # "transact_write_items" => t_last.requests = 1
          /\ t_items = t_before
    /\ (o_last.op \in RaisingObjectOps /\ o_last.answer.error # None)
       => /\ o_last.error = o_last.answer.error
          /\ Len(o_last.requests) = 1
    /\ (/\ o_last.op = "get_bucket_policy"
        /\ o_last.answer.error \notin {None, NoSuchBucketPolicy})
       => /\ o_last.error = o_last.answer.error
          /\ Len(o_last.requests) = 1
    /\ (o_last.op = "object_exists" /\ o_last.head \notin {"ok", NotFound})
       => /\ o_last.error = o_last.head
          /\ ~o_last.returned

\* C13, witness: put_object answered SlowDown raises SlowDown after its one
\* request.
C13_Witness ==
    /\ o_last.op = "put_object"
    /\ o_last.answer.error = SlowDown
    /\ o_last.error = SlowDown
    /\ Len(o_last.requests) = 1

\* C14: delete_objects sends one request that lists the given keys in the
\* given order; when the backend answers, the call returns that response with
\* its Deleted and Errors lists as they came, also when Errors is not empty,
\* and no refused key is sent again.
C14_DeleteObjectsReportsPerKeyOutcome ==
    o_last.op = "delete_objects" =>
        /\ Len(o_last.requests) = 1
        /\ o_last.requests[1].Objects = o_last.args
        /\ o_last.answer.error = None =>
            /\ o_last.error = None
            /\ o_last.value = Value(o_last.answer.response)
            /\ o_last.value.Deleted \o o_last.value.Errors # <<>>

\* C14, witness: of two keys the backend deletes the first and refuses the
\* second; the call returns both lists.
C14_Witness ==
    /\ o_last.op = "delete_objects"
    /\ o_last.args = <<<<"a">>, <<"e">>>>
    /\ Len(o_last.requests) = 1
    /\ o_last.error = None
    /\ o_last.value = [Deleted |-> <<<<"a">>>>, Errors |-> <<<<"e">>>>]

\* the titles whose extension is docx or doc
DocxTitles == {<<"s", ".", "d", "o", "c", "x">>, <<"s", ".", "D", "O", "C">>}

\* the text extraction of get_text_from_file_by_title raises: the stored
\* bytes are not a file of the title's type
ExtractionRaises(title, body) ==
    \/ title \in PdfTitles /\ body.format # "pdf"
    \/ title \in DocxTitles /\ body.format # "docx"

\* C15: a storage call that raises inside the utility layer does not reach
\* the caller: get_titles_resources_by_silabus gives the empty list when the
\* syllabus lookup raises, get_text_from_file_by_title gives the empty text
\* when the fetch or the extraction raises, and a title lookup that raises
\* leaves out that one title while the titles of the other resources are
\* returned.
C15_UtilityLayerDegrades ==
    /\ tool_last.tool = "get_text_from_file" =>
        LET answer == tool_last.answers[1]
        IN  (answer.error # None \/ ExtractionRaises(tool_last.input, answer.body))
            => /\ get_text_from_file_by_title(tool_last.input, answer) = <<>>
               /\ tool_last.result = ReturnDict("dict_str", NoContent)
    /\ tool_last.tool = "get_resources_by_syllabus" =>
        LET library == tool_last.answers[1]
            answers == tool_last.answers[2]
            titles == get_titles_resources_by_silabus(library, answers)
        IN  /\ library.error # None
               => /\ titles = <<>>
                  /\ tool_last.result = ReturnDict("dict_str", NoResources)
            /\ (/\ library.error = None /\ library.item = "resources"
                /\ \A i \in 1..Len(library.resources) :
                    library.resources[i] # Malformed
                /\ \E i \in 1..Len(answers) : answers[i].error # None)
               => /\ \A j \in 1..Len(answers) :
                        HasTitle(answers[j]) =>
                            /\ answers[j].result \in Range(titles)
                            /\ tool_last.result.shape = "dict_list"
                            /\ answers[j].result \in Range(tool_last.result.value)
                  /\ Len(titles) < Len(answers)
                  /\ tool_last.result.outcome = "returned"

\* C15, witness: the lookup of the first resource's title raises and the
\* second resource has a title, which is returned.
C15_Witness ==
    /\ tool_last.tool = "get_resources_by_syllabus"
    /\ tool_last.answers[1] = LibraryAnswer(None, "resources", <<"p1", "p2">>)
    /\ tool_last.answers[2] = <<[error |-> Throttled, result |-> None],
                                [error |-> None, result |-> "v1"]>>
    /\ tool_last.result = ReturnDict("dict_list", <<"v1">>)

\* an object passes every filter that is given
PassesFilters(obj, filters) ==
    /\ Given(filters.extension) =>
            \E i \in 1..Len(obj.Key) :
                /\ obj.Key[i] = "."
                /\ [j \in 1..(Len(obj.Key) - i) |-> Lower(obj.Key[i + j])]
                   = [j \in 1..Len(Value(filters.extension)) |->
                        Lower(Value(filters.extension)[j])]
    /\ Given(filters.min_size) => obj.Size >= Value(filters.min_size)
    /\ Given(filters.max_size) => obj.Size <= Value(filters.max_size)

\* the call has consumed the last page it will consume
ListingEnded ==
    /\ l_pc # "idle"
    /\ l_page_count > 0
    /\ \/ l_page_count = Len(CallPages)
       \/ /\ Given(l_args.max_pages)
          /\ Value(l_args.max_pages) >= 1
          /\ l_page_count >= Value(l_args.max_pages)

\* C16: list_objects_advanced called with filters that are not empty, once
\* its listing is complete or capped, returns under 'objects' the objects of
\* the listing that pass every filter, with total_count the number of
\* returned objects and original_count the size of the listing.
C16_AdvancedReturnsTheFilteredListing ==
    (/\ l_op = "list_objects_advanced"
     /\ ~NoFilters(l_args.filters)
     /\ ListingEnded
     /\ l_pc # "raised")
    => /\ l_pc = "done"
       /\ l_result.objects =
            SelectSeq(l_all_objects,
                      LAMBDA obj : PassesFilters(obj, l_args.filters))
       /\ l_result.total_count = Len(l_result.objects)
       /\ l_result.original_count = Some(Len(l_all_objects))

\* the result of a tool call that runs alone against the backend, with the
\* helpers as they were constructed
ResultAlone(tool, input) ==
    IF tool = "get_text_from_file"
    THEN TextFromFileResult(
            input, BackendGetObject(conc_backend, ConstructedFields.bucket_name,
                                    ObjectKeyOf(input)))
    ELSE LET library == conc_backend.library[input]
         IN  ResourcesResult(library,
                             [k \in 1..Len(library.resources) |->
                                conc_backend.titles[library.resources[k]]])

\* C17: whatever the interleaving of the calls in flight, the fields of the
\* module-level helpers stay as they were constructed, and every call that
\* has returned gave the result it gives when it runs alone against the same
\* backend.
C17_ConcurrentCallsDoNotInterfere ==
    /\ conc_fields = ConstructedFields
    /\ \A i \in 1..MaxCalls :
        conc_calls[i].pc = "done" =>
            conc_calls[i].result =
                ResultAlone(conc_calls[i].tool, conc_calls[i].input)

\* C17, witness: a get_resources_by_syllabus call that returned two titles
\* although a get_text_from_file call ran between its requests and returned
\* the text of its file.
C17_Witness ==
    \E i, j \in 1..MaxCalls :
        /\ conc_calls[i].tool = "get_resources_by_syllabus"
        /\ conc_calls[i].pc = "done"
        /\ conc_calls[i].overlapped
        /\ conc_calls[i].result = ReturnDict("dict_list", <<"v1", "v2">>)
        /\ conc_calls[j].tool = "get_text_from_file"
        /\ conc_calls[j].pc = "done"
        /\ conc_calls[j].overlapped
        /\ conc_calls[j].result = ReturnDict("dict_str", <<"x", "\n">>)

\* the content type of a local path whose extension is recognised, None for
\* the paths whose extension is not
RecognisedType(file_path) ==
    CASE file_path \in {<<"r", ".", "p", "d", "f">>, <<"R", ".", "P", "D", "F">>}
            -> "application/pdf"
      [] file_path = <<"d", ".", "p", "d", "f", "/", "n", ".", "t", "x", "t">>
            -> "text/plain"
      [] OTHER -> None

\* C18: upload_file passes every option of the caller's extra_args with its
\* value; it adds ContentType, inferred from the extension of the local
\* path, only when the caller gave none and the extension is recognised, and
\* sends nothing else.
C18_UploadPassesOptionsAndInfersContentType ==
    o_last.op = "upload_file" =>
        LET file_path == o_last.args[1]
            extra_args == o_last.args[3]
            given == IF extra_args = Nothing THEN {} ELSE extra_args[1]
            sent == o_last.requests[1].ExtraArgs
            inferred == RecognisedType(file_path)
        IN  /\ Len(o_last.requests) = 1
            /\ o_last.requests[1].Filename = file_path
            /\ o_last.requests[1].Key = o_last.args[2]
            /\ given \subseteq sent
            /\ (\E pair \in given : pair[1] = "ContentType") => sent = given
            /\ (\A pair \in given : pair[1] # "ContentType") =>
                sent = IF inferred = None THEN given
                       ELSE given \cup {<<"ContentType", inferred>>}

\* C18, witness: R.PDF uploaded with an ACL is sent with the ACL and the
\* inferred application/pdf.
C18_Witness ==
    /\ o_last.op = "upload_file"
    /\ o_last.args[1] = <<"R", ".", "P", "D", "F">>
    /\ o_last.args[3] = Some({<<"ACL", "private">>})
    /\ o_last.requests[1].ExtraArgs =
            {<<"ACL", "private">>, <<"ContentType", "application/pdf">>}

\* a request is sent in this step, and it is not the first of the call
LaterRequestSent ==
    /\ bg_requests # <<>>
    /\ Len(bg_requests') = Len(bg_requests) + 1

\* C19: every request of batch_get_items after the first holds exactly the
\* keys that the response before it reported as unprocessed, none of them a
\* key whose item that response returned, and a call that has sent requests
\* returns only after a response without unprocessed keys.
C19_OnlyUnprocessedKeysAreResubmitted ==
    [][/\ LaterRequestSent =>
            /\ bg_requests'[Len(bg_requests')] = bg_unprocessed
            /\ bg_unprocessed # <<>>
            /\ Range(bg_unprocessed) \subseteq Range(bg_requests[Len(bg_requests)])
            /\ \A i \in 1..Len(bg_all_items) :
                bg_all_items[i].key \notin Range(bg_unprocessed)
       /\ (bg_pc = "loop" /\ bg_pc' = "done" /\ bg_requests # <<>>) =>
            bg_unprocessed = <<>>]_vars

\* C19, witness: of the keys 1..4 the first response leaves 2 and 3
\* unprocessed, the second 3, and the third none; the call has returned.
C19_Witness ==
    /\ bg_pc = "done"
    /\ bg_arg = <<1, 2, 3, 4>>
    /\ bg_requests = <<<<1, 2, 3, 4>>, <<2, 3>>, <<3>>>>
    /\ bg_unprocessed = <<>>

\* the first request of the call holds a key the backend never processes
StubbornBackend == bg_stuck \cap Range(Take(bg_arg, BatchLimit)) # {}

\* C20: the loop of batch_get_items has no iteration cap.  Against a backend
\* that reports the same non-empty set of unprocessed keys on every response
\* the call never returns: after each response the loop holds exactly those
\* keys for another request.  Against a backend that processes every key
\* that keeps being resubmitted the call ends: it returns, unless a request
\* raised an error.
C20_LoopEndsOnlyWhenTheBackendProcesses ==
    /\ [](StubbornBackend =>
            /\ bg_pc # "done"
            /\ (bg_pc = "loop" /\ bg_requests # <<>>) =>
                    /\ Range(bg_keys) =
                            bg_stuck \cap Range(Take(bg_arg, BatchLimit))
                    /\ bg_keys = bg_unprocessed)
    /\ ((bg_pc = "loop" /\ ~StubbornBackend) ~> (bg_pc \in {"done", "raised"}))

\* C20, witness: the backend never processes keys 2 and 3; the loop has
\* sent three requests or more, each after the first for 2 and 3, and holds
\* these two keys for the next one.
C20_Witness ==
    /\ bg_stuck = {2, 3}
    /\ bg_pc = "loop"
    /\ bg_arg = <<1, 2, 3, 4>>
    /\ bg_requests = <<<<1, 2, 3, 4>>, <<2, 3>>, <<2, 3>>>>
    /\ bg_throttled = MaxThrottles
    /\ bg_keys = <<2, 3>>

\* C21: every request of query_items_by_begins_pk_sk carries the key
\* condition "partition key = the given partition value AND sort key begins
\* with the given sort-key portion", on the first page and on every
\* follow-up page.
C21_RequestsCarryExactPartitionAndSortPrefix ==
    q_op = "query_items_by_begins_pk_sk" =>
        \A i \in 1..Len(q_requests) :
            q_requests[i].KeyConditionExpression =
                KeyAnd(KeyEq("pk_name", q_args[1]),
                       KeyBeginsWith("sk_name", q_args[2]))

\* C25: every request of batch_get_items holds at least one key and at most
\* 100, whatever the length of the input list and whichever keys of a
\* request the backend leaves unprocessed; a call with an empty list sends
\* no request and returns the empty list.
C25_RequestsHoldOneToAHundredKeys ==
    /\ \A i \in 1..Len(bg_requests) :
        /\ Len(bg_requests[i]) >= 1
        /\ Len(bg_requests[i]) <= 100
    /\ (bg_pc # "idle" /\ bg_arg = <<>>) =>
        /\ bg_requests = <<>>
        /\ bg_pc \in {"loop", "done"}
        /\ bg_pc = "done" => bg_result = <<>>

\* C25, witness: a call with 102 keys has returned after three requests, of
\* 100 keys, of the two keys left unprocessed and of the one left then.
C25_Witness ==
    /\ bg_pc = "done"
    /\ Len(bg_arg) = 102
    /\ Len(bg_requests) = 3
    /\ Len(bg_requests[1]) = 100
    /\ Len(bg_requests[2]) = 2
    /\ Len(bg_requests[3]) = 1

\* the items of the index the filter of the call accepts, in ascending
\* sort-key order
MatchingItems == SelectSeq(q_index, LAMBDA it : ~q_filter \/ it.pass)

\* C24: scan_table returns all the items of the table that match the
\* filter, and query_table all the items that match the key condition and
\* the filter, also when the backend answers with a page that carries a
\* continuation token; query_table returns them in ascending sort-key order
\* with scan_forward True and in descending order with scan_forward False.
C24_TableReadsReturnEveryMatchingItem ==
    (q_pc = "done" /\ q_op \in {"scan_table", "query_table"}) =>
        q_result = IF ForwardOf(q_requests[1]) THEN MatchingItems
                   ELSE Reverse(MatchingItems)

\* the pages the paginator holds for the arguments of the call, and the
\* first k of them
PagesOfCall ==
    ListingPages(s3_bucket,
                 IF l_args.prefix = Nothing THEN <<>> ELSE l_args.prefix[1],
                 l_args.delimiter, l_args.max_keys)

ConsumedContents(k) == Concat([i \in 1..k |-> PagesOfCall[i].Contents])

ConsumedCommonPrefixes(k) == Concat([i \in 1..k |-> PagesOfCall[i].CommonPrefixes])

ReturnedWithMetadata == l_pc = "done" /\ l_op = "list_objects_with_metadata"

\* C27: in a result of list_objects_with_metadata, total_objects is the
\* length of 'objects', total_pages is the number of pages consumed (at
\* most k under max_pages = k >= 1), and 'objects' and 'common_prefixes' are
\* the Contents and the CommonPrefixes of the consumed pages, one after the
\* other.
C27_MetadataCountsWhatWasConsumed ==
    ReturnedWithMetadata =>
        LET consumed == l_result.metadata.total_pages
        IN  /\ l_result.metadata.total_objects = Len(l_result.objects)
            /\ consumed \in 1..Len(PagesOfCall)
            /\ (consumed < Len(PagesOfCall)) =>
                    /\ l_args.max_pages # Nothing
                    /\ consumed = l_args.max_pages[1]
            /\ (l_args.max_pages # Nothing /\ l_args.max_pages[1] >= 1) =>
                    consumed <= l_args.max_pages[1]
            /\ l_result.objects = ConsumedContents(consumed)
            /\ l_result.common_prefixes = ConsumedCommonPrefixes(consumed)

\* C27, witness: a listing with delimiter '/' of three entries, one a
\* common prefix, cut after the second of its three pages.
C27_Witness ==
    /\ ReturnedWithMetadata
    /\ l_args.max_pages = Some(2)
    /\ Len(PagesOfCall) = 3
    /\ l_result.metadata.total_pages = 2
    /\ l_result.metadata.total_objects = 1
    /\ Len(l_result.common_prefixes) = 1

DayOfKey(key) ==
    IF key = <<"a">> THEN 1
    ELSE IF key \in {<<"d", "/", "b">>, <<"d", "/", "c">>} THEN 2
    ELSE 3

\* date is None, or names a day d with lo <= d <= hi
DayWithin(date, lo, hi) ==
    date = Nothing \/ (date # <<<<>>>> /\ date[1][1] >= lo /\ date[1][1] <= hi)

\* C23: list_objects_by_last_modified returns the objects of the
\* list_objects result for the same prefix and paging parameters whose day
\* of last modification d satisfies start_date <= d <= end_date, both days
\* included, in the order of that result; a bound of None does not
\* restrict, so with both None the result is the listing itself.
C23_ByLastModifiedKeepsTheClosedDayRange ==
    (/\ l_pc = "done"
     /\ l_op = "list_objects_by_last_modified"
     /\ l_args.start_date # Some(<<>>)
     /\ l_args.end_date # Some(<<>>)) =>
        /\ l_result = SelectSeq(l_all_objects,
                LAMBDA obj :
                    /\ DayWithin(l_args.start_date, 0, DayOfKey(obj.Key))
                    /\ DayWithin(l_args.end_date, DayOfKey(obj.Key), MaxDay + 1))
        /\ (l_args.start_date = Nothing /\ l_args.end_date = Nothing) =>
                l_result = l_all_objects

\* C23, witness: of the four objects listed, the call with start and end
\* on day 2, the end given with a time before d/c was modified, has
\* returned the two modified on day 2.
C23_Witness ==
    /\ l_pc = "done"
    /\ l_op = "list_objects_by_last_modified"
    /\ l_args.start_date = Some(<<2, 1>>)
    /\ l_args.end_date = Some(<<2>>)
    /\ Len(l_all_objects) = 4
    /\ Len(l_result) = 2

RECURSIVE TitlesInOrder(_)
\* the titles among the answers to the lookups, in the order of the lookups;
\* a lookup that failed, found no item or found no title gives none
TitlesInOrder(answers) ==
    IF answers = <<>> THEN <<>>
    ELSE (IF Head(answers).error = None /\ Head(answers).result \in Values
          THEN <<Head(answers).result>> ELSE <<>>)
         \o TitlesInOrder(Tail(answers))

\* C28: for a syllabus item that lists its resources,
\* get_titles_resources_by_silabus returns one title per resource whose item
\* exists and has a title (an empty title counts as none), in the order in
\* which the item lists the resources; a resource that is absent, untitled
\* or whose lookup fails is skipped and the others keep their order.
C28_TitlesFollowTheOrderOfTheResources ==
    (/\ tool_last.tool = "get_resources_by_syllabus"
     /\ tool_last.answers[1].error = None
     /\ tool_last.answers[1].item = "resources"
     /\ \A i \in 1..Len(tool_last.answers[1].resources) :
            tool_last.answers[1].resources[i] # Malformed) =>
        LET expected == TitlesInOrder(tool_last.answers[2])
        IN  /\ get_titles_resources_by_silabus(tool_last.answers[1],
                                               tool_last.answers[2]) = expected
            /\ tool_last.result =
                    IF expected = <<>> THEN ReturnDict("dict_str", NoResources)
                    ELSE ReturnDict("dict_list", expected)

\* C28, witness: the item lists p2 before p1; both have a title and the
\* titles come back in that order.
C28_Witness ==
    /\ tool_last.tool = "get_resources_by_syllabus"
    /\ tool_last.answers[1] = LibraryAnswer(None, "resources", <<"p2", "p1">>)
    /\ tool_last.answers[2] = <<[error |-> None, result |-> "v2"],
                                [error |-> None, result |-> "v1"]>>
    /\ tool_last.result = ReturnDict("dict_list", <<"v2", "v1">>)

UpperCaseLetters == {"S", "P", "D", "F", "O", "C", "E", "T", "M"}

NonAscii == {"é", "É", "U+2122", "€"}

\* C30: sanitize_filename applied to a name it returned returns that name,
\* and a name it returns holds no upper-case letter, no character outside
\* ASCII and none of '.', ',' and ' ', so the object key built from a
\* sanitized title is the key built from the title.
C30_SanitizeFilenameIsIdempotent ==
    /\ tool_last.tool \in {"sanitize_filename", "sanitize_filename_again"} =>
        \A i \in 1..Len(tool_last.result.value) :
            tool_last.result.value[i] \notin
                UpperCaseLetters \cup NonAscii \cup {".", ",", " "}
    /\ tool_last.tool = "sanitize_filename_again" =>
        /\ tool_last.result.value = tool_last.input
        /\ tool_last.answers[1] = S3_PATH \o <<"/">> \o tool_last.input

\* the backend has returned, to a listing of a prefix, that prefix among
\* the common prefixes
SelfReferentialReturned ==
    /\ Given(r_loop)
    /\ r_stack # <<>>
    /\ \E i \in 1..Len(r_listings) : r_listings[i] = Value(r_loop)

TreeEnded == r_pc \in {"done", "raised"}

\* C22: list_objects_recursively lists each directory level once and calls
\* itself once for each common prefix returned.  While every common prefix
\* returned extends the prefix listed, no prefix is listed twice and the
\* call ends; once the backend has returned a common prefix equal to the
\* prefix listed, the call never returns and its calls in progress grow to
\* any depth allowed, each of them on that prefix.
C22_RecursionEndsUnlessAPrefixRefersToItself ==
    /\ [](~SelfReferentialReturned =>
            \A i, j \in 1..Len(r_listings) :
                r_listings[i] = r_listings[j] => i = j)
    /\ (r_pc = "running") ~> (TreeEnded \/ SelfReferentialReturned)
    /\ [](SelfReferentialReturned => r_pc # "done")
    /\ SelfReferentialReturned ~>
            \/ r_pc = "raised"
            \/ /\ Len(r_stack) = MaxDepth
               /\ KwPrefix(r_stack[MaxDepth].prefix) = Value(r_loop)
               /\ KwPrefix(r_stack[MaxDepth - 1].prefix) = Value(r_loop)

\* C22, witness: the backend returns 'd/' to the listing of 'd/'; the call on
\* the whole bucket is MaxDepth calls deep, all but the first on 'd/'.
C22_Witness ==
    /\ r_pc = "running"
    /\ r_args.prefix = Nothing
    /\ Len(r_stack) = MaxDepth
    /\ \A i \in 2..MaxDepth : r_stack[i].prefix = Some(<<"d", "/">>)
    /\ r_listings = <<<<>>>> \o [i \in 1..(MaxDepth - 1) |-> <<"d", "/">>]

RECURSIVE TreePlacements(_, _)
\* the objects of a tree, each with the prefix of the node whose 'files'
\* holds it
TreePlacements(tree, node) ==
    [i \in 1..Len(tree.files) |-> [node |-> node, obj |-> tree.files[i]]]
    \o Concat([i \in 1..Len(tree.directories) |->
                  TreePlacements(tree.directories[i].value,
                                 tree.directories[i].key)])

\* the node an object belongs to: that of the longest prefix of its key
\* ending in '/', the root when the key has no '/' past the prefix asked for
NodeOf(key, root) ==
    LET longest == Take(key, LastIndex(key, "/"))
    IN  IF Len(longest) >= Len(root) THEN longest ELSE root

\* C26: a call of list_objects_recursively without a page cap that has
\* returned holds in its tree every object of the bucket whose key starts
\* with the prefix, once, in the 'files' of the node of the longest prefix of
\* the key ending in '/', and nothing else.
C26_TreeHoldsEachObjectOnceAtItsDirectory ==
    (r_pc = "done" /\ ~Given(r_args.max_pages)) =>
        LET root == KwPrefix(r_args.prefix)
            placed == TreePlacements(r_result, root)
        IN  /\ \A obj \in s3_bucket :
                StartsWith(obj.Key, root) =>
                    /\ Cardinality({i \in 1..Len(placed) :
                                        placed[i].obj = obj}) = 1
                    /\ \E i \in 1..Len(placed) :
                        /\ placed[i].obj = obj
                        /\ placed[i].node = NodeOf(obj.Key, root)
            /\ \A i \in 1..Len(placed) :
                /\ placed[i].obj \in s3_bucket
                /\ StartsWith(placed[i].obj.Key, root)

\* C26, witness: the five objects under 'd', one a page, have come back in a
\* tree of three levels.
C26_Witness ==
    /\ r_pc = "done"
    /\ r_args = [prefix |-> Some(<<"d">>), max_keys |-> 1,
                 max_pages |-> Nothing]
    /\ Cardinality(s3_bucket) = 6
    /\ Len(TreePlacements(r_result, <<"d">>)) = 5
    /\ Len(r_result.files) = 1
    /\ Len(r_result.directories) = 1
    /\ Len(r_result.directories[1].value.directories) = 2

====
